---- MODULE Spec2Model ----
(***************************************************************************)
(* Pill-UML: a line-oriented diagram language compiled to SVG.             *)
(*                                                                         *)
(* The model follows the Rust sources: the two parsers (class_diagram.rs,  *)
(* sequence_diagram.rs), their layout passes, the sequence renderer's      *)
(* element loop and the CSS custom-property table (common.rs).             *)
(*                                                                         *)
(* Strings are TLA+ strings; a Rust byte offset is a 0-based offset here,  *)
(* and Option<usize> from str::find is -1 for None.  f32 coordinates are   *)
(* fixed-point integers with FP units per 1.0, which is exact for every    *)
(* value the modelled code computes (sums, products with integers, and     *)
(* halving at most twice).                                                 *)
(***************************************************************************)
EXTENDS Integers, Sequences, FiniteSets, TLC

VARIABLES
    pc,            \* position of the pipeline
    pipe,          \* "class" or "sequence": the pipeline that runs
    n,             \* number of source lines consumed by Parser::parse
    line,          \* the source line of the current loop iteration (raw)
    in_diagram,    \* Parser::parse local
    parser,        \* the Parser struct of the running pipeline
    panicked,      \* TRUE once a slice went out of range (the thread panics)
    diagram,       \* the ClassDiagram / SequenceDiagram returned by parse
    layouts,       \* number of layout() calls made on diagram
    render,        \* locals of sequence_diagram::render's element loop
    svg,           \* the primitives pushed to the SvgBuilder so far
    sheets,        \* the style sheets handed to SvgBuilder::new
    css,           \* CssProperties and the locals of parse_css
    source,        \* the lines of the source text handed to detection and to
                   \* style extraction (the parsers draw their lines one by one)
    extract,       \* locals of extract_custom_css
    walk,          \* locals queue and layers of hierarchical_layout
    style          \* the DiagramStyle handed to layout and render

vars == <<pc, pipe, n, line, in_diagram, parser, panicked, diagram, layouts,
          render, svg, sheets, css, source, extract, walk, style>>

pipeVars == <<pc, pipe, n, line, in_diagram, parser, panicked, diagram,
              layouts, render, svg>>

cssVars == <<sheets, css>>

-----------------------------------------------------------------------------
(* Bounds of the model.                                                    *)

MaxLines == 5

MaxLayouts == 2

MaxSheets == 2

-----------------------------------------------------------------------------
(* Rust str primitives.                                                    *)

None == [some |-> FALSE, v |-> ""]

Some(s) == [some |-> TRUE, v |-> s]

Min(S) == CHOOSE x \in S : \A y \in S : x <= y

Max(S) == CHOOSE x \in S : \A y \in S : y <= x

\* s[a..b]; the caller checks SliceOk first, as the Rust slice does.
Slice(s, a, b) == SubSeq(s, a + 1, b)

\* s[a..]
SliceFrom(s, a) == SubSeq(s, a + 1, Len(s))

\* Whether s[a..b] is in range; Rust panics otherwise.
SliceOk(s, a, b) == a <= b /\ b <= Len(s)

StartsWith(s, p) == Len(p) <= Len(s) /\ SubSeq(s, 1, Len(p)) = p

EndsWith(s, p) == Len(p) <= Len(s) /\ SubSeq(s, Len(s) - Len(p) + 1, Len(s)) = p

\* str::find: the 0-based offset of the first occurrence, -1 for None.
Find(s, p) ==
    LET hits == {i \in 0..(Len(s) - Len(p)) : SubSeq(s, i + 1, i + Len(p)) = p}
    IN  IF hits = {} THEN -1 ELSE Min(hits)

Contains(s, p) == Find(s, p) # -1

RECURSIVE TrimStart(_)
TrimStart(s) ==
    IF Len(s) > 0 /\ SubSeq(s, 1, 1) = " " THEN TrimStart(SliceFrom(s, 1)) ELSE s

RECURSIVE TrimEnd(_)
TrimEnd(s) ==
    IF Len(s) > 0 /\ SubSeq(s, Len(s), Len(s)) = " "
    THEN TrimEnd(Slice(s, 0, Len(s) - 1))
    ELSE s

Trim(s) == TrimEnd(TrimStart(s))

\* str::trim_end_matches(p): strips p from the end repeatedly.
RECURSIVE TrimEndMatches(_, _)
TrimEndMatches(s, p) ==
    IF EndsWith(s, p) THEN TrimEndMatches(Slice(s, 0, Len(s) - Len(p)), p) ELSE s

RECURSIVE TrimStartMatches(_, _)
TrimStartMatches(s, p) ==
    IF StartsWith(s, p) THEN TrimStartMatches(SliceFrom(s, Len(p)), p) ELSE s

\* str::trim_matches(c)
TrimMatches(s, c) == TrimEndMatches(TrimStartMatches(s, c), c)

\* str::replace(p, ""): non-overlapping matches, left to right.
RECURSIVE Remove(_, _)
Remove(s, p) ==
    LET i == Find(s, p)
    IN  IF i = -1 THEN s
        ELSE Slice(s, 0, i) \o Remove(SliceFrom(s, i + Len(p)), p)

\* The replacement of one character by escape_xml.
escape_char(c) ==
    CASE c = "&" -> "&amp;"
      [] c = "<" -> "&lt;"
      [] c = ">" -> "&gt;"
      [] c = "\"" -> "&quot;"
      [] c = "'" -> "&#39;"
      [] OTHER -> c

\* common.rs escape_xml, which SvgBuilder::text_class applies to its content:
\* five str::replace calls, `&` first, so that each character of the text is
\* replaced once and no replacement is replaced again.
RECURSIVE escape_xml(_)
escape_xml(text) ==
    IF \A i \in 1..Len(text) : escape_char(SubSeq(text, i, i)) = SubSeq(text, i, i)
    THEN text
    ELSE escape_char(SubSeq(text, 1, 1)) \o escape_xml(SubSeq(text, 2, Len(text)))

\* str::split_whitespace
RECURSIVE SplitWhitespace(_)
SplitWhitespace(s) ==
    LET t == TrimStart(s)
        sp == Find(t, " ")
    IN  IF t = "" THEN <<>>
        ELSE IF sp = -1 THEN <<t>>
        ELSE <<Slice(t, 0, sp)>> \o SplitWhitespace(SliceFrom(t, sp))

Digit(c) ==
    CASE c = "0" -> 0 [] c = "1" -> 1 [] c = "2" -> 2 [] c = "3" -> 3
      [] c = "4" -> 4 [] c = "5" -> 5 [] c = "6" -> 6 [] c = "7" -> 7
      [] c = "8" -> 8 [] c = "9" -> 9 [] OTHER -> -1

AllDigits(s) == Len(s) > 0 /\ \A i \in 1..Len(s) : Digit(SubSeq(s, i, i)) # -1

RECURSIVE DigitsValue(_)
DigitsValue(s) ==
    IF s = "" THEN 0
    ELSE 10 * DigitsValue(Slice(s, 0, Len(s) - 1)) + Digit(SubSeq(s, Len(s), Len(s)))

\* str::parse for a number: an optional sign and decimal digits.  The model's
\* inputs hold no fraction, exponent, inf or nan literal.
ParseNumber(s) ==
    LET body == IF StartsWith(s, "-") \/ StartsWith(s, "+") THEN SliceFrom(s, 1) ELSE s
    IN  IF AllDigits(body)
        THEN [ok |-> TRUE,
              val |-> IF StartsWith(s, "-") THEN 0 - DigitsValue(body) ELSE DigitsValue(body)]
        ELSE [ok |-> FALSE, val |-> 0]

\* A parse that takes every text for a number.
parse_f32_lenient(s) == IF ParseNumber(s).ok THEN ParseNumber(s) ELSE [ok |-> TRUE, val |-> 0]

\* value_str.parse::<f32>()
parse_f32(s) == ParseNumber(s)

\* n.parse() to the i32 of Participant::order
parse_i32(s) == ParseNumber(s)

\* An insert that keeps the value of a key already present.
InsertKeep(m, k, v) == [x \in DOMAIN m \cup {k} |-> IF x \in DOMAIN m THEN m[x] ELSE v]

\* HashMap::insert
Insert(m, k, v) == [x \in DOMAIN m \cup {k} |-> IF x = k THEN v ELSE m[x]]

EmptyMap == <<>>

\* All orders in which a HashMap's values can be enumerated.
Perms(S) ==
    {q \in [1..Cardinality(S) -> S] : \A i, j \in 1..Cardinality(S) : q[i] = q[j] => i = j}

-----------------------------------------------------------------------------
(* class_diagram.rs: Parser.                                               *)

Ok(P) == [p |-> P, panic |-> FALSE]

Panic(P) == [p |-> P, panic |-> TRUE]

from_char(c) ==
    CASE c = "+" -> Some("Public")
      [] c = "-" -> Some("Private")
      [] c = "#" -> Some("Protected")
      [] c = "~" -> Some("Package")
      [] OTHER -> None

ClassDef(name, class_type, stereotype) ==
    [name |-> name, class_type |-> class_type, fields |-> <<>>, methods |-> <<>>,
     stereotype |-> stereotype, x |-> 0, y |-> 0, width |-> 0, height |-> 0]

class_new == [classes |-> EmptyMap, relationships |-> <<>>, current_class |-> None]

\* ensure_class without the contains_key test.
ensure_class_always(P, name) ==
    [P EXCEPT !.classes = Insert(P.classes, name, ClassDef(name, "Class", None))]

ensure_class(P, name) ==
    IF name \in DOMAIN P.classes THEN P
    ELSE [P EXCEPT !.classes = Insert(P.classes, name, ClassDef(name, "Class", None))]

\* parse_class_decl that leaves the stereotype in the name.
parse_class_decl_whole_name(P, l) ==
    LET kw == IF StartsWith(l, "interface ") THEN <<"Interface", 10>>
              ELSE IF StartsWith(l, "abstract class ") THEN <<"Abstract", 15>>
              ELSE IF StartsWith(l, "abstract ") THEN <<"Abstract", 9>>
              ELSE IF StartsWith(l, "enum ") THEN <<"Enum", 5>>
              ELSE IF StartsWith(l, "class ") THEN <<"Class", 6>>
              ELSE <<"", -1>>
        rest == Trim(SliceFrom(l, kw[2]))
        has_body == EndsWith(rest, "{")
        name_part == IF has_body THEN Trim(Slice(rest, 0, Len(rest) - 1)) ELSE rest
        start == Find(name_part, "<<")
        end == Find(name_part, ">>")
        stereo == start # -1 /\ end # -1
        stereotype == IF stereo THEN Some(Trim(Slice(name_part, start + 2, end))) ELSE None
    IN  IF kw[2] = -1 THEN Ok(P)
        ELSE IF stereo /\ ~SliceOk(name_part, start + 2, end) THEN Panic(P)
        ELSE Ok([P EXCEPT
                   !.classes = Insert(P.classes, name_part,
                                      ClassDef(name_part, kw[1], stereotype)),
                   !.current_class = IF has_body THEN Some(name_part) ELSE @])

parse_class_decl(P, l) ==
    LET kw == IF StartsWith(l, "interface ") THEN <<"Interface", 10>>
              ELSE IF StartsWith(l, "abstract class ") THEN <<"Abstract", 15>>
              ELSE IF StartsWith(l, "abstract ") THEN <<"Abstract", 9>>
              ELSE IF StartsWith(l, "enum ") THEN <<"Enum", 5>>
              ELSE IF StartsWith(l, "class ") THEN <<"Class", 6>>
              ELSE <<"", -1>>
        rest == Trim(SliceFrom(l, kw[2]))
        has_body == EndsWith(rest, "{")
        name_part == IF has_body THEN Trim(Slice(rest, 0, Len(rest) - 1)) ELSE rest
        start == Find(name_part, "<<")
        end == Find(name_part, ">>")
        stereo == start # -1 /\ end # -1
        name == IF stereo THEN Trim(Slice(name_part, 0, start)) ELSE name_part
        stereotype == IF stereo THEN Some(Trim(Slice(name_part, start + 2, end))) ELSE None
    IN  IF kw[2] = -1 THEN Ok(P)
        ELSE IF stereo /\ ~SliceOk(name_part, start + 2, end) THEN Panic(P)
        ELSE Ok([P EXCEPT
                   !.classes = Insert(P.classes, name, ClassDef(name, kw[1], stereotype)),
                   !.current_class = IF has_body THEN Some(name) ELSE @])

parse_field(P, class_name, visibility, rest0) ==
    LET is_static == Contains(rest0, "{static}") \/ Contains(rest0, "{classifier}")
        rest == Trim(Remove(Remove(rest0, "{static}"), "{classifier}"))
        pos == Find(rest, ":")
        name == IF pos # -1 THEN Trim(Slice(rest, 0, pos)) ELSE rest
        field_type == IF pos # -1 THEN Some(Trim(SliceFrom(rest, pos + 1))) ELSE None
        f == [visibility |-> visibility, name |-> name, field_type |-> field_type,
              is_static |-> is_static]
    IN  IF class_name \in DOMAIN P.classes
        THEN Ok([P EXCEPT !.classes[class_name].fields = Append(@, f)])
        ELSE Ok(P)

parse_method(P, class_name, visibility, rest0) ==
    LET is_static == Contains(rest0, "{static}") \/ Contains(rest0, "{classifier}")
        is_abstract == Contains(rest0, "{abstract}")
        rest == Trim(Remove(Remove(Remove(rest0, "{static}"), "{classifier}"), "{abstract}"))
        paren_start == Find(rest, "(")
        paren_end == Find(rest, ")")
        colon == Find(SliceFrom(rest, paren_end), ":")
        m == [visibility |-> visibility,
              name |-> Trim(Slice(rest, 0, paren_start)),
              params |-> Trim(Slice(rest, paren_start + 1, paren_end)),
              return_type |-> IF colon # -1
                              THEN Some(Trim(SliceFrom(rest, paren_end + colon + 1)))
                              ELSE None,
              is_static |-> is_static, is_abstract |-> is_abstract]
    IN  IF paren_start = -1 \/ paren_end = -1 THEN Ok(P)
        ELSE IF ~SliceOk(rest, paren_start + 1, paren_end) THEN Panic(P)
        ELSE IF class_name \in DOMAIN P.classes
        THEN Ok([P EXCEPT !.classes[class_name].methods = Append(@, m)])
        ELSE Ok(P)

parse_member(P, class_name, l0) ==
    LET l == Trim(l0)
        vis == from_char(SubSeq(l, 1, 1))
        rest == IF vis.some THEN Trim(SliceFrom(l, 1)) ELSE l
    IN  IF l = "" \/ l = "{" THEN Ok(P)
        ELSE IF Contains(rest, "(") THEN parse_method(P, class_name, vis, rest)
        ELSE parse_field(P, class_name, vis, rest)

patterns ==
    << <<"--|>", "Inheritance">>, <<"<|--", "Inheritance">>,
       <<"..|>", "Realization">>, <<"<|..", "Realization">>,
       <<"*--", "Composition">>, <<"--*", "Composition">>,
       <<"o--", "Aggregation">>, <<"--o", "Aggregation">>,
       <<"..>", "Dependency">>, <<"<..", "Dependency">>,
       <<"-->", "DirectedAssoc">>, <<"<--", "DirectedAssoc">>,
       <<"--", "Association">> >>

\* Direction decided without looking at the token.
reversed_never(pattern) == FALSE

\* Whether the operands of a matched token are swapped (line 361).
reversed(pattern) == StartsWith(pattern, "<")

\* The loop of try_parse_relationship from pattern number i on.
RECURSIVE rel_from(_, _, _)
rel_from(P, l, i) ==
    IF i > Len(patterns) THEN P
    ELSE
        LET pattern == patterns[i][1]
            pos == Find(l, pattern)
            left == Trim(Slice(l, 0, pos))
            right_part == Trim(SliceFrom(l, pos + Len(pattern)))
            colon == Find(right_part, ":")
            right == IF colon # -1 THEN Trim(Slice(right_part, 0, colon)) ELSE right_part
            label == IF colon # -1 THEN Some(Trim(SliceFrom(right_part, colon + 1))) ELSE None
            from == IF reversed(pattern) THEN right ELSE left
            to == IF reversed(pattern) THEN left ELSE right
            rel == [from |-> from, to |-> to, rel_type |-> patterns[i][2], label |-> label]
        IN  IF pos = -1 THEN rel_from(P, l, i + 1)
            ELSE IF left = "" \/ right = "" THEN rel_from(P, l, i + 1)
            ELSE [ensure_class(ensure_class(P, from), to)
                    EXCEPT !.relationships = Append(@, rel)]

try_parse_relationship(P, l) == rel_from(P, l, 1)

is_decl(l) ==
    \/ StartsWith(l, "class ")
    \/ StartsWith(l, "interface ")
    \/ StartsWith(l, "abstract ")
    \/ StartsWith(l, "enum ")

class_parse_line(P, l) ==
    IF l = "}" THEN Ok([P EXCEPT !.current_class = None])
    ELSE IF P.current_class.some THEN parse_member(P, P.current_class.v, l)
    ELSE IF is_decl(l) THEN parse_class_decl(P, l)
    ELSE Ok(try_parse_relationship(P, l))

\* Only the blank lines skipped.
skipped_blank_only(l) == l = ""

\* The lines Parser::parse skips in either pipeline.
skipped(l) == l = "" \/ StartsWith(l, "//") \/ StartsWith(l, "skinparam")

-----------------------------------------------------------------------------
(* sequence_diagram.rs: Parser.                                            *)

Participant(name, order) == [name |-> name, order |-> order, x |-> 0, width |-> 0]

Message(from, to, text, arrow) ==
    [type |-> "Message", from |-> from, to |-> to, text |-> text, style |-> arrow,
     cond |-> None]

Divider(text) ==
    [type |-> "Divider", from |-> "", to |-> "", text |-> text, style |-> "", cond |-> None]

AltStart(cond) ==
    [type |-> "AltStart", from |-> "", to |-> "", text |-> "", style |-> "",
     cond |-> Some(cond)]

ElseBranch(cond) ==
    [type |-> "ElseBranch", from |-> "", to |-> "", text |-> "", style |-> "", cond |-> cond]

AltEnd ==
    [type |-> "AltEnd", from |-> "", to |-> "", text |-> "", style |-> "", cond |-> None]

seq_new == [participants |-> EmptyMap, participant_order |-> 0, elements |-> <<>>]

\* ensure_participant that creates nothing.
ensure_participant_none(P, name) == P

ensure_participant(P, name) ==
    IF name \in DOMAIN P.participants THEN P
    ELSE [P EXCEPT
            !.participants = Insert(@, name, Participant(name, P.participant_order)),
            !.participant_order = @ + 1]

parse_participant(P, rest) ==
    LET parts == SplitWhitespace(rest)
        name == parts[1]
        hits == {i \in 1..Len(parts) : parts[i] = "order"}
        pos == IF hits = {} THEN 0 ELSE Min(hits)
        o == IF pos # 0 /\ pos + 1 <= Len(parts)
             THEN parse_i32(parts[pos + 1])
             ELSE [ok |-> FALSE, val |-> 0]
        order == IF o.ok THEN o.val ELSE P.participant_order
    IN  IF parts = <<>> THEN P
        ELSE IF name \in DOMAIN P.participants THEN P
        ELSE [P EXCEPT
                !.participants = Insert(@, name, Participant(name, order)),
                !.participant_order = @ + 1]

arrows ==
    << <<"-->>", "DashedOpen">>, <<"->>", "SolidOpen">>,
       <<"-->", "Dashed">>, <<"->", "Solid">> >>

\* The loop of try_parse_message from pattern number i on.
RECURSIVE msg_from(_, _, _)
msg_from(P, l, i) ==
    IF i > Len(arrows) THEN P
    ELSE
        LET pattern == arrows[i][1]
            pos == Find(l, pattern)
            from == Trim(Slice(l, 0, pos))
            rest == SliceFrom(l, pos + Len(pattern))
            colon == Find(rest, ":")
            to == IF colon # -1 THEN Trim(Slice(rest, 0, colon)) ELSE Trim(rest)
            text == IF colon # -1 THEN Trim(SliceFrom(rest, colon + 1)) ELSE ""
        IN  IF pos = -1 THEN msg_from(P, l, i + 1)
            ELSE IF from # "" /\ to # ""
            THEN [ensure_participant(ensure_participant(P, from), to)
                    EXCEPT !.elements = Append(@, Message(from, to, text, arrows[i][2]))]
            ELSE P

try_parse_message(P, l) == msg_from(P, l, 1)

seq_parse_line(P, l) ==
    IF StartsWith(l, "participant ") THEN parse_participant(P, SliceFrom(l, 12))
    ELSE IF StartsWith(l, "actor ") THEN parse_participant(P, SliceFrom(l, 6))
    ELSE IF StartsWith(l, "...") /\ EndsWith(l, "...")
    THEN [P EXCEPT !.elements = Append(@, Divider(Trim(TrimMatches(l, "."))))]
    ELSE IF StartsWith(l, "alt ")
    THEN [P EXCEPT !.elements = Append(@, AltStart(Trim(SliceFrom(l, 4))))]
    ELSE IF l = "else" \/ StartsWith(l, "else ")
    THEN [P EXCEPT !.elements =
            Append(@, ElseBranch(IF Len(l) > 4 THEN Some(Trim(SliceFrom(l, 4))) ELSE None))]
    ELSE IF l = "end" THEN [P EXCEPT !.elements = Append(@, AltEnd)]
    ELSE try_parse_message(P, l)

\* Vec::sort_by_key(|p| p.order): a stable sort.
RECURSIVE sort_by_order(_)
sort_by_order(ps) ==
    IF ps = <<>> THEN <<>>
    ELSE
        LET init == sort_by_order(SubSeq(ps, 1, Len(ps) - 1))
            p == ps[Len(ps)]
            k == Cardinality({i \in 1..Len(init) : init[i].order <= p.order})
        IN  SubSeq(init, 1, k) \o <<p>> \o SubSeq(init, k + 1, Len(init))

-----------------------------------------------------------------------------
(* common.rs: DiagramStyle::default, in fixed-point units.                 *)

\* Units per 1.0 of an f32 coordinate.
FP == 4

default_style ==
    [margin |-> 30 * FP, padding |-> 10 * FP, char_width |-> 7 * FP,
     spacing_x |-> 60 * FP, spacing_y |-> 80 * FP]

Max2(a, b) == IF a >= b THEN a ELSE b

Min2(a, b) == IF a <= b THEN a ELSE b

-----------------------------------------------------------------------------
(* class_diagram.rs: layout.                                               *)

symbol(vis) ==
    CASE vis.v = "Public" -> "+"
      [] vis.v = "Private" -> "-"
      [] vis.v = "Protected" -> "#"
      [] vis.v = "Package" -> "~"
      [] OTHER -> ""

format_member(vis, name, typ) ==
    IF typ.some THEN symbol(vis) \o name \o ": " \o typ.v ELSE symbol(vis) \o name

format_method_text(m) ==
    IF m.return_type.some
    THEN symbol(m.visibility) \o m.name \o "(" \o m.params \o "): " \o m.return_type.v
    ELSE symbol(m.visibility) \o m.name \o "(" \o m.params \o ")"

text_width(t) == Len(t) * style.char_width + style.padding * 2

\* The body of the loop of calculate_dimensions for one class.
class_dimensions(c) ==
    LET compartment_height == 25 * FP
        field_height == 18 * FP
        min_width == 120 * FP
        widths ==
            {text_width(c.name)}
            \cup {text_width(format_member(c.fields[i].visibility, c.fields[i].name,
                                           c.fields[i].field_type)) : i \in 1..Len(c.fields)}
            \cup {text_width(format_method_text(c.methods[i])) : i \in 1..Len(c.methods)}
        fields_h == IF c.fields = <<>> THEN 0
                    ELSE Len(c.fields) * field_height + style.padding
        methods_h == IF c.methods = <<>> THEN 0
                     ELSE Len(c.methods) * field_height + style.padding
    IN  [c EXCEPT
           !.width = Max2(Max(widths), min_width),
           !.height = Max2(compartment_height + fields_h + methods_h, compartment_height * 2)]

calculate_dimensions(d) ==
    [d EXCEPT !.classes = [i \in 1..Len(d.classes) |-> class_dimensions(d.classes[i])]]

vertical(t) == t \in {"Inheritance", "Realization"}

\* children.get(name): the kids pushed for name, in relationship order.
RECURSIVE children(_, _)
children(rels, name) ==
    IF rels = <<>> THEN <<>>
    ELSE
        LET r == rels[Len(rels)]
            init == children(SubSeq(rels, 1, Len(rels) - 1), name)
        IN  IF vertical(r.rel_type) /\ r.to = name THEN Append(init, r.from)
            ELSE IF r.rel_type \in {"Composition", "Aggregation"} /\ r.from = name
            THEN Append(init, r.to)
            ELSE init

is_root(rels, name) ==
    ~\E i \in 1..Len(rels) : vertical(rels[i].rel_type) /\ rels[i].from = name

RECURSIVE filter_seq(_, _)
filter_seq(s, keep) ==
    IF s = <<>> THEN <<>>
    ELSE IF s[1] \in keep THEN <<s[1]>> \o filter_seq(Tail(s), keep)
    ELSE filter_seq(Tail(s), keep)

\* The `while let Some(..) = queue.pop()` loop: queue is a Vec popped at its end.
RECURSIVE traverse(_, _, _)
traverse(rels, queue, layers) ==
    IF queue = <<>> THEN layers
    ELSE
        LET name == queue[Len(queue)][1]
            layer == queue[Len(queue)][2]
            rest == SubSeq(queue, 1, Len(queue) - 1)
            layers2 == Insert(layers, name, layer)
            kids == children(rels, name)
            fresh == filter_seq(kids, {k \in {kids[i] : i \in 1..Len(kids)} :
                                         k \notin DOMAIN layers2})
            pushed == [i \in 1..Len(fresh) |-> <<fresh[i], layer + 1>>]
        IN  IF name \in DOMAIN layers THEN traverse(rels, rest, layers)
            ELSE traverse(rels, rest \o pushed, layers2)

\* The layer of every class: the traversal, then the remaining classes.
assign_layers(d) ==
    LET names == [i \in 1..Len(d.classes) |-> d.classes[i].name]
        all == {names[i] : i \in 1..Len(names)}
        roots == filter_seq(names, {nm \in all : is_root(d.relationships, nm)})
        queue == IF roots = <<>> THEN << <<names[1], 0>> >>
                 ELSE [i \in 1..Len(roots) |-> <<roots[i], 0>>]
        layers == traverse(d.relationships, queue, EmptyMap)
        max_layer == IF DOMAIN layers = {} THEN 0
                     ELSE Max({layers[k] : k \in DOMAIN layers})
    IN  [nm \in all \cup DOMAIN layers |->
            IF nm \in DOMAIN layers THEN layers[nm] ELSE max_layer + 1]

\* row_x that starts from the x the class already has.
RECURSIVE row_x_accum(_, _, _, _)
row_x_accum(classes, layers, idx, j) ==
    IF j >= idx THEN classes[idx].x + style.margin
    ELSE IF layers[classes[j].name] = layers[classes[idx].name]
    THEN classes[j].width + style.spacing_x + row_x_accum(classes, layers, idx, j + 1)
    ELSE row_x_accum(classes, layers, idx, j + 1)

\* x of the class at index idx: the widths and gaps of the classes of its
\* layer that come before it in the Vec.
RECURSIVE row_x(_, _, _, _)
row_x(classes, layers, idx, j) ==
    IF j >= idx THEN style.margin
    ELSE IF layers[classes[j].name] = layers[classes[idx].name]
    THEN classes[j].width + style.spacing_x + row_x(classes, layers, idx, j + 1)
    ELSE row_x(classes, layers, idx, j + 1)

\* The height of the first class of the layer instead of the tallest one.
layer_height_first(classes, layers, l) ==
    LET row == {j \in 1..Len(classes) : layers[classes[j].name] = l}
    IN  IF row = {} THEN 0 ELSE classes[Min(row)].height

layer_height(classes, layers, l) ==
    LET hs == {classes[i].height : i \in {j \in 1..Len(classes) : layers[classes[j].name] = l}}
    IN  Max(hs \cup {0})

\* current_y when the loop over layer_list reaches layer l.
RECURSIVE layer_y(_, _, _, _)
layer_y(classes, layers, present, l) ==
    LET below == {k \in present : k < l}
    IN  IF below = {} THEN style.margin
        ELSE LET prev == Max(below)
             IN  layer_y(classes, layers, present, prev)
                 + layer_height(classes, layers, prev) + style.spacing_y

\* A placement that also moves the classes of the first layer to the front.
hierarchical_layout_sorted(d) ==
    IF d.classes = <<>> THEN d
    ELSE
        LET layers == assign_layers(d)
            present == {layers[d.classes[i].name] : i \in 1..Len(d.classes)}
            placed == [i \in 1..Len(d.classes) |->
                         [d.classes[i] EXCEPT
                            !.x = row_x(d.classes, layers, i, 1),
                            !.y = layer_y(d.classes, layers, present,
                                          layers[d.classes[i].name])]]
            first == {i \in 1..Len(placed) : layers[placed[i].name] = 0}
        IN  [d EXCEPT !.classes =
                SelectSeq(placed, LAMBDA c : layers[c.name] = 0)
                \o SelectSeq(placed, LAMBDA c : layers[c.name] # 0)]

hierarchical_layout(d) ==
    IF d.classes = <<>> THEN d
    ELSE
        LET layers == assign_layers(d)
            present == {layers[d.classes[i].name] : i \in 1..Len(d.classes)}
        IN  [d EXCEPT !.classes =
                [i \in 1..Len(d.classes) |->
                    [d.classes[i] EXCEPT
                       !.x = row_x(d.classes, layers, i, 1),
                       !.y = layer_y(d.classes, layers, present,
                                     layers[d.classes[i].name])]]]

class_layout(d) == hierarchical_layout(calculate_dimensions(d))

\* bounds: the size of the image, both folds starting from 0.0.
class_bounds(d) ==
    LET max_x == Max({d.classes[i].x + d.classes[i].width : i \in 1..Len(d.classes)} \cup {0})
        max_y == Max({d.classes[i].y + d.classes[i].height : i \in 1..Len(d.classes)} \cup {0})
    IN  <<max_x + style.margin, max_y + style.margin>>

-----------------------------------------------------------------------------
(* sequence_diagram.rs: layout.                                            *)

participant_width(p) == Max2(Len(p.name) * style.char_width + 20 * FP * 2, 80 * FP)

\* current_x before participant number i is placed.
RECURSIVE lane_x(_, _)
lane_x(ps, i) ==
    IF i = 1 THEN style.margin
    ELSE lane_x(ps, i - 1) + Max2(participant_width(ps[i - 1]), 150 * FP)

seq_layout(d) ==
    [d EXCEPT !.participants =
        [i \in 1..Len(d.participants) |->
            [d.participants[i] EXCEPT
               !.width = participant_width(d.participants[i]),
               !.x = lane_x(d.participants, i) + participant_width(d.participants[i]) \div 2]]]

counted(e) == e.type \in {"Message", "Divider", "AltStart", "ElseBranch", "AltEnd"}

seq_calculate_dimensions(d) ==
    LET ps == d.participants
        last == ps[Len(ps)]
        element_count == Cardinality({i \in 1..Len(d.elements) : counted(d.elements[i])})
    IN  [width |-> IF ps = <<>> THEN 200 * FP
                   ELSE last.x + last.width \div 2 + style.margin,
         height |-> style.margin * 2 + 35 * FP * 2 + element_count * 40 * FP + 40 * FP]

-----------------------------------------------------------------------------
(* sequence_diagram.rs: render.                                            *)

\* One primitive pushed to the SvgBuilder: geom holds its coordinates.
Prim(tag, class, geom, text, marker) ==
    [tag |-> tag, class |-> class, geom |-> geom, text |-> text, marker |-> marker]

\* participants.iter().find(|p| p.name == name): 0 for None.
find_participant(ps, name) ==
    LET hits == {i \in 1..Len(ps) : ps[i].name = name}
    IN  IF hits = {} THEN 0 ELSE Min(hits)

draw_participant_box(p, y, height) ==
    << Prim("rect", "participant", <<p.x - p.width \div 2, y, p.width, height>>, "", ""),
       Prim("text", "participant-text", <<p.x, y + height \div 2 + 4 * FP>>, escape_xml(p.name), "") >>

draw_message(ps, msg, y) ==
    LET fi == find_participant(ps, msg.from)
        ti == find_participant(ps, msg.to)
        dashed == msg.style \in {"Dashed", "DashedOpen"}
        marker == IF msg.style \in {"Solid", "Dashed"}
                  THEN "url(#seq-arrow)" ELSE "url(#seq-arrow-open)"
        class == IF dashed THEN "message message-dashed" ELSE "message"
        loop_width == 30 * FP
        loop_height == 20 * FP
        fx == ps[fi].x
        tx == ps[ti].x
    IN  IF fi = 0 \/ ti = 0 THEN <<>>
        ELSE IF msg.from = msg.to
        THEN << Prim("polyline", class,
                     <<fx, y, fx + loop_width, y, fx + loop_width, y + loop_height,
                       fx, y + loop_height>>, "", marker),
                Prim("text", "message-text",
                     <<fx + loop_width + 5 * FP, y + loop_height \div 2 + 4 * FP>>,
                     escape_xml(msg.text), "") >>
        ELSE << Prim("polyline", class, <<fx, y, tx, y>>, "", marker),
                Prim("text", "message-text", <<(fx + tx) \div 2, y - 5 * FP>>,
                     escape_xml(msg.text), "") >>

draw_divider(width, y, text) ==
    LET left == style.margin
        right == width - style.margin
        tw == Len(text) * style.char_width + 20 * FP
        box_x == (width - tw) \div 2
    IN  << Prim("line", "divider-line", <<left, y, right, y>>, "", ""),
           Prim("rect", "divider-box", <<box_x, y - 10 * FP, tw, 20 * FP>>, "", ""),
           Prim("text", "divider-text", <<width \div 2, y + 4 * FP>>, escape_xml(text), "") >>

get_diagram_bounds(ps) ==
    IF ps = <<>> THEN <<style.margin, 200 * FP>>
    ELSE << ps[1].x - ps[1].width \div 2 - 10 * FP,
            ps[Len(ps)].x + ps[Len(ps)].width \div 2 + 10 * FP >>

participant_height == 35 * FP

message_spacing == 40 * FP

\* render up to the element loop: the defs, the lifelines, the participant boxes.
render_begin(d) ==
    LET dim == seq_calculate_dimensions(d)
        ps == d.participants
        top_y == style.margin
        bottom_y == dim.height - style.margin - participant_height
        lifelines == [i \in 1..Len(ps) |->
                        Prim("line", "lifeline",
                             <<ps[i].x, top_y + participant_height, ps[i].x, bottom_y>>, "", "")]
        boxes == [k \in 1..(4 * Len(ps)) |->
                    LET i == (k + 3) \div 4
                        j == (k - 1) % 4
                    IN  IF j < 2 THEN draw_participant_box(ps[i], top_y, participant_height)[j + 1]
                        ELSE draw_participant_box(ps[i], bottom_y, participant_height)[j - 1]]
    IN  [r |-> [i |-> 1, current_y |-> top_y + participant_height + 30 * FP,
                alt_stack |-> <<>>, width |-> dim.width, height |-> dim.height],
         out |-> <<Prim("defs", "", <<>>, "", "")>> \o lifelines \o boxes]

\* An AltEnd arm that draws the box only while another block stays open.
render_alt_end_inner(R) ==
    LET y == R.current_y
        top == R.alt_stack[Len(R.alt_stack)]
    IN  [r |-> [R EXCEPT !.i = @ + 1,
                         !.current_y = y + message_spacing \div 2,
                         !.alt_stack = IF @ = <<>> THEN @ ELSE SubSeq(@, 1, Len(@) - 1)],
         out |-> IF Len(R.alt_stack) <= 1 THEN <<>>
                 ELSE << Prim("rect", "alt-box",
                              <<top[2], top[1], top[3] - top[2], y - top[1]>>, "", "") >>]

\* An AltEnd arm that closes the block that was opened first.
render_alt_end_fifo(R) ==
    LET y == R.current_y
        top == R.alt_stack[1]
    IN  [r |-> [R EXCEPT !.i = @ + 1,
                         !.current_y = y + message_spacing \div 2,
                         !.alt_stack = IF @ = <<>> THEN @ ELSE Tail(@)],
         out |-> IF R.alt_stack = <<>> THEN <<>>
                 ELSE << Prim("rect", "alt-box",
                              <<top[2], top[1], top[3] - top[2], y - top[1]>>, "", ""),
                         Prim("polygon", "alt-label-box",
                              <<top[2], top[1], top[2] + 30 * FP, top[1],
                                top[2] + 40 * FP, top[1] + 15 * FP,
                                top[2], top[1] + 15 * FP>>, "", ""),
                         Prim("text", "alt-label-text",
                              <<top[2] + 5 * FP, top[1] + 11 * FP>>, "alt", "") >>]

\* The Element::AltEnd arm of the element loop.
render_alt_end(R) ==
    LET y == R.current_y
        top == R.alt_stack[Len(R.alt_stack)]
    IN  [r |-> [R EXCEPT !.i = @ + 1,
                         !.current_y = y + message_spacing \div 2,
                         !.alt_stack = IF @ = <<>> THEN @ ELSE SubSeq(@, 1, Len(@) - 1)],
         out |-> IF R.alt_stack = <<>> THEN <<>>
                 ELSE << Prim("rect", "alt-box",
                              <<top[2], top[1], top[3] - top[2], y - top[1]>>, "", ""),
                         Prim("polygon", "alt-label-box",
                              <<top[2], top[1], top[2] + 30 * FP, top[1],
                                top[2] + 40 * FP, top[1] + 15 * FP,
                                top[2], top[1] + 15 * FP>>, "", ""),
                         Prim("text", "alt-label-text",
                              <<top[2] + 5 * FP, top[1] + 11 * FP>>, "alt", "") >>]

\* The body of `for elem in &diagram.elements` for element e.
render_elem(d, R, e) ==
    LET y == R.current_y
        b == get_diagram_bounds(d.participants)
        top == R.alt_stack[Len(R.alt_stack)]
        next == [R EXCEPT !.i = @ + 1]
    IN  CASE e.type = "Message" ->
               [r |-> [next EXCEPT !.current_y = y + message_spacing],
                out |-> draw_message(d.participants, e, y)]
          [] e.type = "Divider" ->
               [r |-> [next EXCEPT !.current_y = y + message_spacing],
                out |-> draw_divider(R.width, y, e.text)]
          [] e.type = "AltStart" ->
               [r |-> [next EXCEPT !.current_y = y + message_spacing,
                                   !.alt_stack = Append(@, <<y, b[1], b[2]>>)],
                out |-> << Prim("text", "alt-condition-text",
                                <<b[1] + 5 * FP, y + 15 * FP>>,
                                escape_xml("[" \o e.cond.v \o "]"), "") >>]
          [] e.type = "ElseBranch" ->
               [r |-> [next EXCEPT !.current_y = y + message_spacing \div 2],
                out |-> IF R.alt_stack = <<>> THEN <<>>
                        ELSE << Prim("line", "alt-divider", <<top[2], y, top[3], y>>, "", "") >>
                             \o (IF e.cond.some
                                 THEN << Prim("text", "alt-condition-text diagram-text",
                                              <<top[2] + 5 * FP, y + 15 * FP>>,
                                              escape_xml("[" \o e.cond.v \o "]"), "") >>
                                 ELSE <<>>)]
          [] e.type = "AltEnd" -> render_alt_end(R)
          [] OTHER -> [r |-> next, out |-> <<>>]

-----------------------------------------------------------------------------
(* common.rs: CssProperties.                                               *)

\* trimmed.find(|c| c == ' ' || c == '{')
find_class_end(t) ==
    LET hits == {i \in 0..(Len(t) - 1) : SubSeq(t, i + 1, i + 1) \in {" ", "{"}}
    IN  IF hits = {} THEN -1 ELSE Min(hits)

\* HashMap entry(class).or_default().insert(prop, val)
set_property(props, class, prop, val) ==
    Insert(props, class,
           Insert(IF class \in DOMAIN props THEN props[class] ELSE EmptyMap, prop, val))

\* The body of the loop of parse_css for one line.  C holds properties, the
\* locals current_class and brace_depth, and failed (a slice out of range).
parse_css_line(C, l) ==
    LET trimmed == Trim(l)
        class_end == find_class_end(trimmed)
        opened == IF Contains(trimmed, "{") THEN C.brace_depth + 1 ELSE C.brace_depth
        depth == IF Contains(trimmed, "}") THEN opened - 1 ELSE opened
        current == IF Contains(trimmed, "}") /\ depth = 0 THEN None ELSE C.current_class
        pos == Find(trimmed, "--")
        colon_pos == Find(SliceFrom(trimmed, pos), ":")
        prop_name == Trim(Slice(trimmed, pos + 2, pos + colon_pos))
        value_str == TrimEndMatches(
                         Trim(TrimEndMatches(Trim(SliceFrom(trimmed, pos + colon_pos + 1)), ";")),
                         "px")
        val == parse_f32(value_str)
        D == [C EXCEPT !.brace_depth = depth, !.current_class = current]
    IN  IF StartsWith(trimmed, ".") /\ Contains(trimmed, "{")
        THEN IF class_end = -1 THEN C
             ELSE IF ~SliceOk(trimmed, 1, class_end) THEN [C EXCEPT !.failed = TRUE]
             ELSE [C EXCEPT !.current_class = Some(Slice(trimmed, 1, class_end)),
                            !.brace_depth = 1]
        ELSE IF ~C.current_class.some THEN C
        ELSE IF pos = -1 \/ colon_pos = -1 THEN D
        ELSE IF ~SliceOk(trimmed, pos + 2, pos + colon_pos) THEN [D EXCEPT !.failed = TRUE]
        ELSE IF val.ok /\ current.some
        THEN [D EXCEPT !.properties = set_property(@, current.v, prop_name, val.val)]
        ELSE D

\* parse_css on a whole text: fresh locals, then every line.
RECURSIVE parse_css_lines(_, _)
parse_css_lines(C, ls) ==
    IF ls = <<>> THEN C ELSE parse_css_lines(parse_css_line(C, ls[1]), Tail(ls))

css_new == [properties |-> EmptyMap, current_class |-> None, brace_depth |-> 0,
            failed |-> FALSE]

parse_css(C, ls) ==
    parse_css_lines([C EXCEPT !.current_class = None, !.brace_depth = 0], ls)

from_css(ls) == parse_css(css_new, ls)

get(props, class, property) ==
    IF class \in DOMAIN props /\ property \in DOMAIN props[class]
    THEN [some |-> TRUE, v |-> props[class][property]]
    ELSE [some |-> FALSE, v |-> 0]

get_or(props, class, property, default) ==
    IF get(props, class, property).some THEN get(props, class, property).v ELSE default

\* Vec<String>::join("\n") followed by str::lines.
RECURSIVE join(_)
join(ss) == IF ss = <<>> THEN <<>> ELSE ss[1] \o join(Tail(ss))

\* DiagramBuilder::render: the external sheets become one text, or none.
combined_css(external) ==
    IF external = <<>> THEN [some |-> FALSE, v |-> <<>>]
    ELSE [some |-> TRUE, v |-> join(external)]

\* The texts SvgBuilder::new parses, in the order it parses them.
css_texts(sh) ==
    <<sh.default>>
    \o (IF combined_css(sh.external).some THEN <<combined_css(sh.external).v>> ELSE <<>>)
    \o (IF sh.inline.some THEN <<sh.inline.v>> ELSE <<>>)

-----------------------------------------------------------------------------
(* The source lines the model feeds to the parsers.                        *)

ClassLines ==
    { "@start_uml", "@end_uml",
      "class A {", "interface B<<svc>>", "class C>><<x",
      "+ f: T", "- g(p): R", "h)(", "}",
      "A --|> B", "A *-- C", "C --> A: uses",
      "", "// A --|> B" }

SeqLines ==
    { "@start_uml", "@end_uml",
      "participant B order 0", "A -> B: ping", "A -> A: self",
      "alt X", "else", "end", "...wait...",
      "hello", "", "// A -> B: ping" }

-----------------------------------------------------------------------------
(* The pipelines as a state machine.                                       *)

NoDiagram == [classes |-> <<>>, relationships |-> <<>>, participants |-> <<>>,
              elements |-> <<>>]

NoRender == [i |-> 0, current_y |-> 0, alt_stack |-> <<>>, width |-> 0, height |-> 0]

NoSheets == [default |-> <<>>, external |-> <<>>, inline |-> [some |-> FALSE, v |-> <<>>]]

NoWalk == [queue |-> <<>>, layers |-> <<>>]

NoExtract == [in_style |-> FALSE, css_lines |-> <<>>, stopped |-> FALSE]

NoCss == [properties |-> EmptyMap, current_class |-> None, brace_depth |-> 0,
          failed |-> FALSE, layer |-> 0, i |-> 0, built |-> FALSE]

InitPipe ==
    /\ style = default_style
    /\ pc = "parse"
    /\ pipe \in {"class", "sequence"}
    /\ n = 0
    /\ line = ""
    /\ in_diagram = FALSE
    /\ parser = IF pipe = "class" THEN class_new ELSE seq_new
    /\ panicked = FALSE
    /\ diagram = NoDiagram
    /\ layouts = 0
    /\ render = NoRender
    /\ svg = <<>>
    /\ source = <<>>
    /\ extract = NoExtract
    /\ walk = NoWalk

Init ==
    /\ InitPipe
    /\ sheets = NoSheets
    /\ css = NoCss

\* One iteration of the loop of class_diagram.rs Parser::parse on line l.
ClassParse(l) ==
    /\ pc = "parse" /\ pipe = "class" /\ n < MaxLines
    /\ n' = n + 1
    /\ line' = l
    /\ LET t == Trim(l)
           r == class_parse_line(parser, t)
       IN  IF skipped(t) THEN UNCHANGED <<pc, in_diagram, parser, panicked>>
           ELSE IF StartsWith(t, "@start_uml")
           THEN in_diagram' = TRUE /\ UNCHANGED <<pc, parser, panicked>>
           ELSE IF StartsWith(t, "@end_uml")
           THEN pc' = "break" /\ UNCHANGED <<in_diagram, parser, panicked>>
           ELSE IF in_diagram
           THEN /\ parser' = r.p
                /\ panicked' = r.panic
                /\ pc' = IF r.panic THEN "panic" ELSE "parse"
                /\ UNCHANGED in_diagram
           ELSE UNCHANGED <<pc, in_diagram, parser, panicked>>
    /\ UNCHANGED <<pipe, diagram, layouts, render, svg, sheets, css>>
    /\ UNCHANGED source
    /\ UNCHANGED extract
    /\ UNCHANGED walk
    /\ UNCHANGED style

\* One iteration of the loop of sequence_diagram.rs Parser::parse on line l.
SeqParse(l) ==
    /\ pc = "parse" /\ pipe = "sequence" /\ n < MaxLines
    /\ n' = n + 1
    /\ line' = l
    /\ LET t == Trim(l)
       IN  IF skipped(t) THEN UNCHANGED <<pc, in_diagram, parser>>
           ELSE IF StartsWith(t, "@start_uml")
           THEN in_diagram' = TRUE /\ UNCHANGED <<pc, parser>>
           ELSE IF StartsWith(t, "@end_uml")
           THEN pc' = "break" /\ UNCHANGED <<in_diagram, parser>>
           ELSE IF in_diagram
           THEN parser' = seq_parse_line(parser, t) /\ UNCHANGED <<pc, in_diagram>>
           ELSE UNCHANGED <<pc, in_diagram, parser>>
    /\ UNCHANGED <<pipe, panicked, diagram, layouts, render, svg, sheets, css>>
    /\ UNCHANGED source
    /\ UNCHANGED extract
    /\ UNCHANGED walk
    /\ UNCHANGED style

\* classes: self.classes.into_values().collect(), for one enumeration order.
class_collect(P, order) ==
    [NoDiagram EXCEPT
       !.classes = [i \in 1..Len(order) |-> P.classes[order[i]]],
       !.relationships = P.relationships]

\* into_values().collect() for one enumeration order, then sort_by_key.
seq_collect(P, order) ==
    [NoDiagram EXCEPT
       !.participants = sort_by_order([i \in 1..Len(order) |-> P.participants[order[i]]]),
       !.elements = P.elements]

\* The end of class Parser::parse: the HashMap's values in the order the
\* map enumerates them, which the hasher's random keys decide.
ClassCollect ==
    /\ pc \in {"parse", "break"} /\ pipe = "class"
    /\ \E order \in Perms(DOMAIN parser.classes) :
          diagram' = class_collect(parser, order)
    /\ pc' = "parsed"
    /\ UNCHANGED <<pipe, n, line, in_diagram, parser, panicked, layouts, render, svg,
                   sheets, css>>
    /\ UNCHANGED source
    /\ UNCHANGED extract
    /\ UNCHANGED walk
    /\ UNCHANGED style

\* The end of sequence Parser::parse: the values in map order, then the sort.
SeqCollect ==
    /\ pc \in {"parse", "break"} /\ pipe = "sequence"
    /\ \E order \in Perms(DOMAIN parser.participants) :
          diagram' = seq_collect(parser, order)
    /\ pc' = "parsed"
    /\ UNCHANGED <<pipe, n, line, in_diagram, parser, panicked, layouts, render, svg,
                   sheets, css>>
    /\ UNCHANGED source
    /\ UNCHANGED extract
    /\ UNCHANGED walk
    /\ UNCHANGED style

ClassLayout ==
    /\ pc \in {"parsed", "laid"} /\ pipe = "class" /\ layouts < MaxLayouts
    /\ diagram' = class_layout(diagram)
    /\ layouts' = layouts + 1
    /\ pc' = "laid"
    /\ UNCHANGED <<pipe, n, line, in_diagram, parser, panicked, render, svg, sheets, css>>
    /\ UNCHANGED source
    /\ UNCHANGED extract
    /\ UNCHANGED walk
    /\ UNCHANGED style

SeqLayout ==
    /\ pc \in {"parsed", "laid"} /\ pipe = "sequence" /\ layouts < MaxLayouts
    /\ diagram' = seq_layout(diagram)
    /\ layouts' = layouts + 1
    /\ pc' = "laid"
    /\ UNCHANGED <<pipe, n, line, in_diagram, parser, panicked, render, svg, sheets, css>>
    /\ UNCHANGED source
    /\ UNCHANGED extract
    /\ UNCHANGED walk
    /\ UNCHANGED style

SeqRenderBegin ==
    /\ pc = "laid" /\ pipe = "sequence"
    /\ render' = render_begin(diagram).r
    /\ svg' = render_begin(diagram).out
    /\ pc' = "render"
    /\ UNCHANGED <<pipe, n, line, in_diagram, parser, panicked, diagram, layouts,
                   sheets, css>>
    /\ UNCHANGED source
    /\ UNCHANGED extract
    /\ UNCHANGED walk
    /\ UNCHANGED style

SeqRenderElem ==
    /\ pc = "render" /\ render.i <= Len(diagram.elements)
    /\ LET step == render_elem(diagram, render, diagram.elements[render.i])
       IN  /\ render' = step.r
           /\ svg' = svg \o step.out
    /\ UNCHANGED <<pc, pipe, n, line, in_diagram, parser, panicked, diagram, layouts,
                   sheets, css>>
    /\ UNCHANGED source
    /\ UNCHANGED extract
    /\ UNCHANGED walk
    /\ UNCHANGED style

\* svg.finish()
SeqRenderFinish ==
    /\ pc = "render" /\ render.i > Len(diagram.elements)
    /\ svg' = Append(svg, Prim("/svg", "", <<>>, "", ""))
    /\ pc' = "done"
    /\ UNCHANGED <<pipe, n, line, in_diagram, parser, panicked, diagram, layouts, render,
                   sheets, css>>
    /\ UNCHANGED source
    /\ UNCHANGED extract
    /\ UNCHANGED walk
    /\ UNCHANGED style

Next ==
    \/ \E l \in ClassLines : ClassParse(l)
    \/ \E l \in SeqLines : SeqParse(l)
    \/ ClassCollect
    \/ SeqCollect
    \/ ClassLayout
    \/ SeqLayout
    \/ SeqRenderBegin
    \/ SeqRenderElem
    \/ SeqRenderFinish

Spec == Init /\ [][Next]_vars

-----------------------------------------------------------------------------
(* try_parse_relationship as a function of one line, on a fresh parser.    *)

Tokens == {patterns[i][1] : i \in 1..Len(patterns)}

Operands == {"A", "B"}

Labels == {"", ": t"}

RelLine(left, token, right, label) == left \o " " \o token \o " " \o right \o label

RelLines ==
    {RelLine(l, t, r, lb) : l \in Operands, t \in Tokens, r \in Operands, lb \in Labels}

InitRel ==
    /\ style = default_style
    /\ pc = "rel_input"
    /\ pipe = "class"
    /\ n = 0
    /\ line \in RelLines
    /\ in_diagram = TRUE
    /\ parser = class_new
    /\ panicked = FALSE
    /\ diagram = NoDiagram
    /\ layouts = 0
    /\ render = NoRender
    /\ svg = <<>>
    /\ sheets = NoSheets
    /\ css = NoCss
    /\ source = <<>>
    /\ extract = NoExtract
    /\ walk = NoWalk

RelApply ==
    /\ pc = "rel_input"
    /\ parser' = try_parse_relationship(parser, Trim(line))
    /\ pc' = "rel_done"
    /\ UNCHANGED <<pipe, n, line, in_diagram, panicked, diagram, layouts, render, svg,
                   sheets, css>>
    /\ UNCHANGED source
    /\ UNCHANGED extract
    /\ UNCHANGED walk
    /\ UNCHANGED style

NextRel == RelApply

SpecRel == InitRel /\ [][NextRel]_vars

-----------------------------------------------------------------------------
(* SvgBuilder::new building the property table from the style layers.      *)

shA4 == <<".a {", "--rx: 4;", "}">>

shB1 == <<".b {", "--rx: 1;", "}">>

shA8 == <<".a {", "--rx: 8px;", "--ry: red;", "--rz: 2;", "}">>

shBad == <<".a {", "--rx: red;", "}">>

shOpen == <<".a {", "--ry: 3;">>

shBare == <<"--rx: 5;">>

shA12 == <<".a {", "--rx: 12;", "}">>

shLine == <<".b { --rx: 1; }", "--rz: 2;">>

\* default_theme.css is not part of the sources: any sheet may stand for it.
DefaultSheets == {shA4, shB1}

ExternalSheets == {shA8, shBad, shOpen, shBare}

InlineSheets == {shA12, shBad, shLine}

RECURSIVE SeqsUpTo(_, _)
SeqsUpTo(S, k) ==
    IF k = 0 THEN {<<>>}
    ELSE SeqsUpTo(S, k - 1) \cup {Append(q, x) : q \in SeqsUpTo(S, k - 1), x \in S}

InitCss ==
    /\ style = default_style
    /\ pc = "css"
    /\ pipe = "class"
    /\ n = 0
    /\ line = ""
    /\ in_diagram = FALSE
    /\ parser = class_new
    /\ panicked = FALSE
    /\ diagram = NoDiagram
    /\ layouts = 0
    /\ render = NoRender
    /\ svg = <<>>
    /\ sheets \in [default : DefaultSheets,
                   external : SeqsUpTo(ExternalSheets, MaxSheets),
                   inline : {[some |-> FALSE, v |-> <<>>]}
                            \cup {[some |-> TRUE, v |-> sh] : sh \in InlineSheets}]
    /\ css = [NoCss EXCEPT !.layer = 1, !.i = 1]
    /\ source = <<>>
    /\ extract = NoExtract
    /\ walk = NoWalk

\* One iteration of the loop of parse_css on the current text.
CssParseLine ==
    /\ pc = "css" /\ ~css.built
    /\ css.i <= Len(css_texts(sheets)[css.layer])
    /\ LET C == parse_css_line([properties |-> css.properties,
                                current_class |-> css.current_class,
                                brace_depth |-> css.brace_depth,
                                failed |-> css.failed],
                               css_texts(sheets)[css.layer][css.i])
       IN  css' = [css EXCEPT !.properties = C.properties,
                              !.current_class = C.current_class,
                              !.brace_depth = C.brace_depth,
                              !.failed = C.failed,
                              !.i = @ + 1]
    /\ UNCHANGED <<pipeVars, sheets>>
    /\ UNCHANGED source
    /\ UNCHANGED extract
    /\ UNCHANGED walk
    /\ UNCHANGED style

\* parse_css returns; SvgBuilder::new merges the next layer, or is done.
CssNextText ==
    /\ pc = "css" /\ ~css.built
    /\ css.i > Len(css_texts(sheets)[css.layer])
    /\ css' = IF css.layer = Len(css_texts(sheets))
              THEN [css EXCEPT !.built = TRUE]
              ELSE [css EXCEPT !.layer = @ + 1, !.i = 1,
                               !.current_class = None, !.brace_depth = 0]
    /\ UNCHANGED <<pipeVars, sheets>>
    /\ UNCHANGED source
    /\ UNCHANGED extract
    /\ UNCHANGED walk
    /\ UNCHANGED style

NextCss == CssParseLine \/ CssNextText

SpecCss == InitCss /\ [][NextCss]_vars

-----------------------------------------------------------------------------
(* class_diagram.rs: render.                                               *)

compartment_height == 25 * FP

field_height == 18 * FP

\* The text rows of a compartment: row k of texts at y0 + k * field_height.
member_rows(c, texts, classes, y0) ==
    [k \in 1..Len(texts) |->
        Prim("text", classes[k], <<c.x + style.padding, y0 + k * field_height>>,
             escape_xml(texts[k]), "")]

render_class(c) ==
    LET box_class == CASE c.class_type = "Interface" -> "interface"
                       [] c.class_type = "Abstract" -> "abstract-class"
                       [] c.class_type = "Enum" -> "enum"
                       [] OTHER -> "class"
        name_class == CASE c.class_type = "Interface" -> "interface-name"
                        [] c.class_type = "Abstract" -> "abstract-class-name"
                        [] OTHER -> "class-name"
        separator_class == CASE c.class_type = "Interface" -> "interface-separator"
                             [] c.class_type = "Abstract" -> "abstract-class-separator"
                             [] OTHER -> "class-separator"
        cx == c.x + c.width \div 2
        y1 == IF c.stereotype.some THEN c.y + 10 * FP ELSE c.y
        y2 == c.y + compartment_height
        field_class(f) ==
            IF c.class_type = "Abstract"
            THEN IF f.is_static
                 THEN "abstract-class-field-name abstract-class-field-name-static"
                 ELSE "abstract-class-field-name"
            ELSE IF f.is_static THEN "class-field-name class-field-name-static"
                 ELSE "class-field-name"
        prefix == CASE c.class_type = "Interface" -> "interface-method-name"
                    [] c.class_type = "Abstract" -> "abstract-class-method-name"
                    [] OTHER -> "class-method-name"
        method_class(m) ==
            IF m.is_static THEN prefix \o " " \o prefix \o "-static"
            ELSE IF m.is_abstract /\ c.class_type # "Interface"
            THEN prefix \o " " \o prefix \o "-abstract"
            ELSE prefix
        y3 == IF c.fields # <<>> THEN y2 + 4 * FP + Len(c.fields) * field_height + 4 * FP
              ELSE y2
    IN  << Prim("rect", box_class, <<c.x, c.y, c.width, c.height>>, "", "") >>
        \o (IF c.stereotype.some
            THEN << Prim("text", "class-stereotype", <<cx, c.y + 12 * FP>>,
                         escape_xml("<<" \o c.stereotype.v \o ">>"), "") >>
            ELSE <<>>)
        \o << Prim("text", name_class, <<cx, y1 + compartment_height \div 2 + 4 * FP>>,
                   escape_xml(c.name), ""),
              Prim("line", separator_class, <<c.x, y2, c.x + c.width, y2>>, "", "") >>
        \o (IF c.fields # <<>>
            THEN member_rows(c, [k \in 1..Len(c.fields) |->
                                    format_member(c.fields[k].visibility, c.fields[k].name,
                                                  c.fields[k].field_type)],
                             [k \in 1..Len(c.fields) |-> field_class(c.fields[k])],
                             y2 + 4 * FP)
                 \o << Prim("line", separator_class, <<c.x, y3, c.x + c.width, y3>>, "", "") >>
            ELSE <<>>)
        \o (IF c.methods # <<>>
            THEN member_rows(c, [k \in 1..Len(c.methods) |-> format_method_text(c.methods[k])],
                             [k \in 1..Len(c.methods) |-> method_class(c.methods[k])],
                             y3 + 4 * FP)
            ELSE <<>>)

\* `for class in &diagram.classes { render_class(..) }` from class number i on.
RECURSIVE render_classes(_, _)
render_classes(classes, i) ==
    IF i > Len(classes) THEN <<>>
    ELSE render_class(classes[i]) \o render_classes(classes, i + 1)

abs(v) == IF v < 0 THEN 0 - v ELSE v

route_margin == 15 * FP

\* A straight route also for centres that are not aligned.
calculate_path_direct(from, to, rel_type) ==
    << <<from.x + from.width \div 2, from.y + from.height>>,
       <<to.x + to.width \div 2, to.y>> >>

\* calculate_path: the points of the connector from box `from` to box `to`.
calculate_path(from, to, rel_type) ==
    LET from_cx == from.x + from.width \div 2
        from_cy == from.y + from.height \div 2
        to_cx == to.x + to.width \div 2
        to_cy == to.y + to.height \div 2
        dx == to_cx - from_cx
        dy == to_cy - from_cy
        prefer_vertical == rel_type \in {"Inheritance", "Realization"}
        \* the vertical routes: start and end on the facing top/bottom edges
        vsy == IF dy > 0 THEN from.y + from.height ELSE from.y
        vey == IF dy > 0 THEN to.y ELSE to.y + to.height
        vmid == (vsy + vey) \div 2
        vertical4 == << <<from_cx, vsy>>, <<from_cx, vmid>>, <<to_cx, vmid>>, <<to_cx, vey>> >>
        \* the horizontal routes: start and end on the facing side edges
        hsx == IF dx > 0 THEN from.x + from.width ELSE from.x
        hex == IF dx > 0 THEN to.x ELSE to.x + to.width
        gap == IF dx > 0 THEN hex - hsx ELSE hsx - hex
        out == IF dx > 0 THEN route_margin ELSE 0 - route_margin
        mid_x == (hsx + hex) \div 2
        route_y == IF from_cy > to_cy THEN Min2(from.y, to.y) - route_margin
                   ELSE Max2(from.y + from.height, to.y + to.height) + route_margin
    IN  IF prefer_vertical /\ abs(dy) > 20 * FP
        THEN IF abs(from_cx - to_cx) < 10 * FP
             THEN << <<from_cx, vsy>>, <<to_cx, vey>> >>
             ELSE vertical4
        ELSE IF abs(dx) > abs(dy) \/ ~prefer_vertical
        THEN IF gap > route_margin * 2
             THEN << <<hsx, from_cy>>, <<mid_x, from_cy>>, <<mid_x, to_cy>>, <<hex, to_cy>> >>
             ELSE << <<hsx, from_cy>>, <<hsx + out, from_cy>>, <<hsx + out, route_y>>,
                     <<hex - out, route_y>>, <<hex - out, to_cy>>, <<hex, to_cy>> >>
        ELSE vertical4

\* A renderer that draws no connector.
render_relationship_none(d, rel) == <<>>

\* diagram.classes.iter().find(|c| c.name == name): 0 for None.
find_class(classes, name) ==
    LET hits == {i \in 1..Len(classes) : classes[i].name = name}
    IN  IF hits = {} THEN 0 ELSE Min(hits)

\* render_relationship: the polyline with its markers, then the label.
render_relationship(d, rel) ==
    LET fi == find_class(d.classes, rel.from)
        ti == find_class(d.classes, rel.to)
        dashed == rel.rel_type \in {"Realization", "Dependency"}
        marker_start == CASE rel.rel_type = "Composition" -> "url(#cls-diamond-filled)"
                          [] rel.rel_type = "Aggregation" -> "url(#cls-diamond-empty)"
                          [] OTHER -> ""
        marker_end == CASE rel.rel_type \in {"Inheritance", "Realization"} -> "url(#cls-triangle)"
                        [] rel.rel_type \in {"Dependency", "DirectedAssoc"} -> "url(#cls-arrow)"
                        [] OTHER -> ""
        points == calculate_path(d.classes[fi], d.classes[ti], rel.rel_type)
        mid == points[Len(points) \div 2 + 1]
    IN  IF fi = 0 \/ ti = 0 THEN <<>>
        ELSE << Prim("polyline",
                     IF dashed THEN "relationship relationship-dashed" ELSE "relationship",
                     points, "", marker_start \o marker_end) >>
             \o (IF rel.label.some
                 THEN << Prim("text", "relationship-label", <<mid[1], mid[2] - 5 * FP>>,
                              escape_xml(rel.label.v), "") >>
                 ELSE <<>>)

\* `for rel in &diagram.relationships { render_relationship(..) }` from
\* relationship number i on.
RECURSIVE render_relationships(_, _)
render_relationships(d, i) ==
    IF i > Len(d.relationships) THEN <<>>
    ELSE render_relationship(d, d.relationships[i]) \o render_relationships(d, i + 1)

\* SvgBuilder::new and the defs block: the root tag with the embedded style
\* block, then `<defs>..</defs>`.
class_render_begin ==
    << Prim("svg", "", <<>>, "", ""), Prim("style", "", <<>>, "", ""),
       Prim("defs", "", <<>>, "", "") >>

\* render_with_file_css after layout: the root tag, the style block, the
\* defs, the relationships, the classes, finish.
class_render(d) ==
    class_render_begin \o render_relationships(d, 1) \o render_classes(d.classes, 1)
    \o <<Prim("/svg", "", <<>>, "", "")>>

-----------------------------------------------------------------------------
(* One entity-header line parsed on a fresh parser, then rendered.         *)

Keywords ==
    { <<"class ", "Class">>, <<"interface ", "Interface">>, <<"abstract ", "Abstract">>,
      <<"abstract class ", "Abstract">>, <<"enum ", "Enum">> }

Names == {"Foo", "A"}

\* The stereotype part of a header and the stereotype it stands for.
Stereotypes ==
    { <<"", None>>, <<"<<svc>>", Some("svc")>>, <<" << svc >>", Some("svc")>>,
      <<"<<persistent_entity>>", Some("persistent_entity")>> }

Braces == {"", " {", "{"}

\* The valid header lines with the name, kind and stereotype they are
\* written from.
Headers ==
    { [line |-> k[1] \o nm \o st[1] \o br, name |-> nm, kind |-> k[2], stereotype |-> st[2],
       has_body |-> br # ""] :
        k \in Keywords, nm \in Names, st \in Stereotypes, br \in Braces }

InitDecl ==
    /\ style = default_style
    /\ pc = "decl_input"
    /\ pipe = "class"
    /\ n = 0
    /\ line \in {h.line : h \in Headers}
    /\ in_diagram = TRUE
    /\ parser = class_new
    /\ panicked = FALSE
    /\ diagram = NoDiagram
    /\ layouts = 0
    /\ render = NoRender
    /\ svg = <<>>
    /\ sheets = NoSheets
    /\ css = NoCss
    /\ source = <<>>
    /\ extract = NoExtract
    /\ walk = NoWalk

\* Parser::parse_line on the header line.
DeclApply ==
    /\ pc = "decl_input"
    /\ LET r == class_parse_line(parser, Trim(line))
       IN  /\ parser' = r.p
           /\ panicked' = r.panic
           /\ pc' = IF r.panic THEN "panic" ELSE "decl_done"
    /\ UNCHANGED <<pipe, n, line, in_diagram, diagram, layouts, render, svg, sheets, css>>
    /\ UNCHANGED source
    /\ UNCHANGED extract
    /\ UNCHANGED walk
    /\ UNCHANGED style

\* The rest of render_with_file_css: the collected model, layout, the markup.
DeclRender ==
    /\ pc = "decl_done" /\ parser.relationships = <<>>
    /\ \E order \in Perms(DOMAIN parser.classes) :
          /\ diagram' = class_layout(class_collect(parser, order))
          /\ svg' = class_render(class_layout(class_collect(parser, order)))
    /\ layouts' = layouts + 1
    /\ pc' = "decl_rendered"
    /\ UNCHANGED <<pipe, n, line, in_diagram, parser, panicked, render, sheets, css>>
    /\ UNCHANGED source
    /\ UNCHANGED extract
    /\ UNCHANGED walk
    /\ UNCHANGED style

NextDecl == DeclApply \/ DeclRender

SpecDecl == InitDecl /\ [][NextDecl]_vars

-----------------------------------------------------------------------------
(* One message line parsed after participant declarations, then rendered.  *)

\* The element loop of render from the position of R on.
RECURSIVE render_from(_, _, _)
render_from(d, R, out) ==
    IF R.i > Len(d.elements) THEN out
    ELSE LET step == render_elem(d, R, d.elements[R.i])
         IN  render_from(d, step.r, out \o step.out)

\* sequence_diagram::render after layout.
seq_render(d) ==
    Append(render_from(d, render_begin(d).r, render_begin(d).out),
           Prim("/svg", "", <<>>, "", ""))

ArrowTokens ==
    { <<"->", "Solid">>, <<"-->", "Dashed">>, <<"->>", "SolidOpen">>,
      <<"-->>", "DashedOpen">> }

\* The text part of a message line, the text it stands for, and that text
\* as markup.
Texts ==
    { <<"", "", "">>, <<": ping", "ping", "ping">>, <<": a<b", "a<b", "a&lt;b">>,
      <<": x --> y", "x --> y", "x --&gt; y">> }

\* The message lines with the endpoints, text and arrow style they are
\* written from.
Msgs ==
    { [line |-> f \o " " \o a[1] \o " " \o t \o tx[1], from |-> f, to |-> t,
       text |-> tx[2], markup |-> tx[3], style |-> a[2]] :
        f \in Operands, a \in ArrowTokens, t \in Operands, tx \in Texts }

\* The participants declared before the message line, in source order.
Declared == { <<>>, <<"A">>, <<"A", "B">>, <<"B", "A">> }

\* The parser after the lines `participant X` for the names of ds.
RECURSIVE declare(_, _)
declare(P, ds) ==
    IF ds = <<>> THEN P
    ELSE declare(seq_parse_line(P, "participant " \o Head(ds)), Tail(ds))

InitMsg ==
    /\ style = default_style
    /\ pc = "msg_input"
    /\ pipe = "sequence"
    /\ n = 0
    /\ line \in {m.line : m \in Msgs}
    /\ in_diagram = TRUE
    /\ parser \in {declare(seq_new, ds) : ds \in Declared}
    /\ panicked = FALSE
    /\ diagram = NoDiagram
    /\ layouts = 0
    /\ render = NoRender
    /\ svg = <<>>
    /\ sheets = NoSheets
    /\ css = NoCss
    /\ source = <<>>
    /\ extract = NoExtract
    /\ walk = NoWalk

\* Parser::parse_line on the message line.
MsgApply ==
    /\ pc = "msg_input"
    /\ parser' = seq_parse_line(parser, Trim(line))
    /\ pc' = "msg_done"
    /\ UNCHANGED <<pipe, n, line, in_diagram, panicked, diagram, layouts, render, svg,
                   sheets, css>>
    /\ UNCHANGED source
    /\ UNCHANGED extract
    /\ UNCHANGED walk
    /\ UNCHANGED style

\* The rest of render: the collected model, layout, the markup.
MsgRender ==
    /\ pc = "msg_done"
    /\ \E order \in Perms(DOMAIN parser.participants) :
          /\ diagram' = seq_layout(seq_collect(parser, order))
          /\ svg' = seq_render(seq_layout(seq_collect(parser, order)))
    /\ layouts' = layouts + 1
    /\ pc' = "msg_rendered"
    /\ UNCHANGED <<pipe, n, line, in_diagram, parser, panicked, render, sheets, css>>
    /\ UNCHANGED source
    /\ UNCHANGED extract
    /\ UNCHANGED walk
    /\ UNCHANGED style

NextMsg == MsgApply \/ MsgRender

SpecMsg == InitMsg /\ [][NextMsg]_vars

-----------------------------------------------------------------------------
(* class_diagram.rs is_class_diagram, as lib.rs detect_diagram_type uses it.*)

MaxSource == 3

\* The first test of the loop body: an entity header without the
\* relationship tokens.
class_marker_headers_only(l) == is_decl(l)

\* The first test of the loop body of is_class_diagram.
class_marker(l) ==
    \/ StartsWith(l, "class ") \/ StartsWith(l, "interface ")
    \/ StartsWith(l, "abstract ") \/ StartsWith(l, "enum ")
    \/ Contains(l, "--|>") \/ Contains(l, "<|--")
    \/ Contains(l, "..|>") \/ Contains(l, "<|..")
    \/ Contains(l, "*--") \/ Contains(l, "--*")
    \/ Contains(l, "o--") \/ Contains(l, "--o")

\* The second test of the loop body of is_class_diagram.
sequence_marker(l) ==
    \/ StartsWith(l, "participant ")
    \/ StartsWith(l, "actor ")
    \/ (Contains(l, "->") /\ Contains(l, ":") /\ ~Contains(l, "--|>"))

\* The lines of the sources handed to detection.
DetectLines ==
    { "class A {", "  enum E", "A --|> B", "A *-- B: x->y", "participant A", "actor U",
      "A -> B: ping", "A -> B", "hello" }

InitDetect ==
    /\ style = default_style
    /\ pc = "detect"
    /\ pipe = "undetected"
    /\ n = 0
    /\ line = ""
    /\ in_diagram = FALSE
    /\ parser = class_new
    /\ panicked = FALSE
    /\ diagram = NoDiagram
    /\ layouts = 0
    /\ render = NoRender
    /\ svg = <<>>
    /\ sheets = NoSheets
    /\ css = NoCss
    /\ source \in SeqsUpTo(DetectLines, MaxSource)
    /\ extract = NoExtract
    /\ walk = NoWalk

\* One iteration of the loop of is_class_diagram; detect_diagram_type turns
\* true into Class and false into Sequence.
DetectLine ==
    /\ pc = "detect" /\ n < Len(source)
    /\ line' = source[n + 1]
    /\ n' = n + 1
    /\ LET l == Trim(source[n + 1])
       IN  IF class_marker(l) THEN pipe' = "class" /\ pc' = "detected"
           ELSE IF sequence_marker(l) THEN pipe' = "sequence" /\ pc' = "detected"
           ELSE UNCHANGED <<pipe, pc>>
    /\ UNCHANGED <<in_diagram, parser, panicked, diagram, layouts, render, svg, sheets,
                   css, source>>
    /\ UNCHANGED extract
    /\ UNCHANGED walk
    /\ UNCHANGED style

\* The loop ends without a marker: false.
DetectEnd ==
    /\ pc = "detect" /\ n = Len(source)
    /\ pipe' = "sequence"
    /\ pc' = "detected"
    /\ UNCHANGED <<n, line, in_diagram, parser, panicked, diagram, layouts, render, svg,
                   sheets, css, source>>
    /\ UNCHANGED extract
    /\ UNCHANGED walk
    /\ UNCHANGED style

NextDetect == DetectLine \/ DetectEnd

SpecDetect == InitDetect /\ [][NextDetect]_vars

-----------------------------------------------------------------------------
(* common.rs extract_custom_css.                                           *)

MaxStyleSource == 4

\* The body of the loop of extract_custom_css on line l; stopped is the break.
extract_line(E, l) ==
    LET trimmed == Trim(l)
    IN  IF trimmed = "@start_style" THEN [E EXCEPT !.in_style = TRUE]
        ELSE IF trimmed = "@end_style" THEN [E EXCEPT !.stopped = TRUE]
        ELSE IF E.in_style /\ ~StartsWith(trimmed, "//")
        THEN [E EXCEPT !.css_lines = Append(@, l)]
        ELSE E

\* The lines of the sources handed to style extraction.
StyleLines ==
    { "@start_style", "@end_style", ".a {", "  --rx: 1;", "// note", "@start_uml" }

InitExtract ==
    /\ style = default_style
    /\ pc = "extract"
    /\ pipe = "undetected"
    /\ n = 0
    /\ line = ""
    /\ in_diagram = FALSE
    /\ parser = class_new
    /\ panicked = FALSE
    /\ diagram = NoDiagram
    /\ layouts = 0
    /\ render = NoRender
    /\ svg = <<>>
    /\ sheets = NoSheets
    /\ css = NoCss
    /\ source \in SeqsUpTo(StyleLines, MaxStyleSource)
    /\ extract = NoExtract
    /\ walk = NoWalk

\* One iteration of the loop of extract_custom_css.
ExtractLine ==
    /\ pc = "extract" /\ n < Len(source) /\ ~extract.stopped
    /\ line' = source[n + 1]
    /\ n' = n + 1
    /\ extract' = extract_line(extract, source[n + 1])
    /\ UNCHANGED <<pc, pipe, in_diagram, parser, panicked, diagram, layouts, render, svg,
                   sheets, css, source>>
    /\ UNCHANGED walk
    /\ UNCHANGED style

\* After the loop: None for no line, else the lines joined.
ExtractReturn ==
    /\ pc = "extract" /\ (n = Len(source) \/ extract.stopped)
    /\ sheets' = [sheets EXCEPT !.inline = IF extract.css_lines = <<>>
                                          THEN [some |-> FALSE, v |-> <<>>]
                                          ELSE [some |-> TRUE, v |-> extract.css_lines]]
    /\ pc' = "extracted"
    /\ UNCHANGED <<pipe, n, line, in_diagram, parser, panicked, diagram, layouts, render,
                   svg, css, source, extract>>
    /\ UNCHANGED walk
    /\ UNCHANGED style

NextExtract == ExtractLine \/ ExtractReturn

SpecExtract == InitExtract /\ [][NextExtract]_vars

-----------------------------------------------------------------------------
(* class_diagram.rs try_parse_relationship on lines with up to two tokens   *)
(* and operands that may be missing.                                        *)

ClassifyLines ==
    {a \o " " \o t1 \o " " \o b \o " " \o t2 \o " " \o c :
        a \in {"", "A"}, t1 \in Tokens, b \in {"", "B"}, t2 \in Tokens \cup {""},
        c \in {"", "C", "C: t"}}

InitClassify ==
    /\ style = default_style
    /\ pc = "rel_input"
    /\ pipe = "class"
    /\ n = 0
    /\ line \in ClassifyLines
    /\ in_diagram = TRUE
    /\ parser = class_new
    /\ panicked = FALSE
    /\ diagram = NoDiagram
    /\ layouts = 0
    /\ render = NoRender
    /\ svg = <<>>
    /\ sheets = NoSheets
    /\ css = NoCss
    /\ source = <<>>
    /\ extract = NoExtract
    /\ walk = NoWalk

SpecClassify == InitClassify /\ [][NextRel]_vars

-----------------------------------------------------------------------------
(* class_diagram.rs hierarchical_layout: the traversal, one iteration of    *)
(* the `while let` loop at a time, and the remaining classes.               *)

MaxRels == 2

\* The greatest layer of the traversal, for the remaining classes.
remaining_layer_max(layers) ==
    IF DOMAIN layers = {} THEN 0 ELSE Max({layers[k] : k \in DOMAIN layers})

\* max_layer + 1: the layer of the classes the traversal did not reach.
remaining_layer(layers) ==
    (IF DOMAIN layers = {} THEN 0 ELSE Max({layers[k] : k \in DOMAIN layers})) + 1

\* The queue before the loop: the roots at layer 0, or names[0] for no root.
initial_queue(d) ==
    LET names == [i \in 1..Len(d.classes) |-> d.classes[i].name]
        all == {names[i] : i \in 1..Len(names)}
        roots == filter_seq(names, {nm \in all : is_root(d.relationships, nm)})
    IN  IF roots = <<>> THEN << <<names[1], 0>> >>
        ELSE [i \in 1..Len(roots) |-> <<roots[i], 0>>]

\* One iteration of the loop: the entry popped from the end of the queue.
walk_step(rels, W) ==
    LET name == W.queue[Len(W.queue)][1]
        layer == W.queue[Len(W.queue)][2]
        rest == SubSeq(W.queue, 1, Len(W.queue) - 1)
        layers2 == Insert(W.layers, name, layer)
        kids == children(rels, name)
        fresh == filter_seq(kids, {k \in {kids[i] : i \in 1..Len(kids)} :
                                     k \notin DOMAIN layers2})
        pushed == [i \in 1..Len(fresh) |-> <<fresh[i], layer + 1>>]
    IN  IF name \in DOMAIN W.layers THEN [W EXCEPT !.queue = rest]
        ELSE [queue |-> rest \o pushed, layers |-> layers2]

\* The models handed to the placement: up to three entities in any order of
\* the list, relationships between them, cycles and self-loops included.
WalkNames == {"A", "B", "C"}

WalkRels(S) ==
    {[from |-> f, to |-> t, rel_type |-> "Inheritance", label |-> None] : f \in S, t \in S}
    \cup UNION {{[from |-> f, to |-> t, rel_type |-> "Composition", label |-> None] :
                    t \in S \ {f}} : f \in S}

WalkDiagram(order, rels) ==
    [classes |-> [i \in 1..Len(order) |-> ClassDef(order[i], "Class", None)],
     relationships |-> rels, participants |-> <<>>, elements |-> <<>>]

InitWalk ==
    /\ style = default_style
    /\ pc = "layout"
    /\ pipe = "class"
    /\ n = 0
    /\ line = ""
    /\ in_diagram = FALSE
    /\ parser = class_new
    /\ panicked = FALSE
    /\ \E S \in (SUBSET WalkNames) \ {{}} :
          \E order \in Perms(S), rels \in SeqsUpTo(WalkRels(S), MaxRels) :
              diagram = WalkDiagram(order, rels)
    /\ layouts = 0
    /\ render = NoRender
    /\ svg = <<>>
    /\ sheets = NoSheets
    /\ css = NoCss
    /\ source = <<>>
    /\ extract = NoExtract
    /\ walk = NoWalk

\* The roots are found and queued.
WalkBegin ==
    /\ pc = "layout"
    /\ walk' = [queue |-> initial_queue(diagram), layers |-> EmptyMap]
    /\ pc' = "walk"
    /\ UNCHANGED <<pipe, n, line, in_diagram, parser, panicked, diagram, layouts, render,
                   svg, sheets, css, source, extract>>
    /\ UNCHANGED style

\* `while let Some((name, layer)) = queue.pop()`: one iteration.
WalkStep ==
    /\ pc = "walk" /\ walk.queue # <<>>
    /\ walk' = walk_step(diagram.relationships, walk)
    /\ n' = n + 1
    /\ UNCHANGED <<pc, pipe, line, in_diagram, parser, panicked, diagram, layouts, render,
                   svg, sheets, css, source, extract>>
    /\ UNCHANGED style

\* The loop has ended: `layers.entry(name).or_insert(max_layer + 1)`.
WalkRest ==
    /\ pc = "walk" /\ walk.queue = <<>>
    /\ LET all == {diagram.classes[i].name : i \in 1..Len(diagram.classes)}
       IN  walk' = [walk EXCEPT !.layers =
                      [nm \in all \cup DOMAIN walk.layers |->
                          IF nm \in DOMAIN walk.layers THEN walk.layers[nm]
                          ELSE remaining_layer(walk.layers)]]
    /\ pc' = "walked"
    /\ UNCHANGED <<pipe, n, line, in_diagram, parser, panicked, diagram, layouts, render,
                   svg, sheets, css, source, extract>>
    /\ UNCHANGED style

NextWalk == WalkBegin \/ WalkStep \/ WalkRest

SpecWalk == InitWalk /\ [][NextWalk]_vars

\* The thread that runs the loop is scheduled until the function returns.
FairWalk == SpecWalk /\ WF_vars(NextWalk)

-----------------------------------------------------------------------------
(* class_diagram.rs calculate_path on two sized and placed boxes.           *)

\* The target box, and the places of the source box around it: to the left
\* and to the right with a wide and a narrow gap, above and below, centres
\* aligned, nearly aligned and apart.
PathTargets ==
    {[ClassDef("T", "Class", None) EXCEPT !.x = 200 * FP, !.y = 200 * FP,
                                          !.width = w * FP, !.height = h * FP] :
        w \in {120, 134}, h \in {50, 78}}

PathSources ==
    {[ClassDef("S", "Class", None) EXCEPT !.x = x * FP, !.y = y * FP,
                                          !.width = 120 * FP, !.height = 50 * FP] :
        x \in {0, 60, 170, 195, 200, 207, 230, 330, 400},
        y \in {0, 70, 190, 200, 210, 330, 400}}

PathKinds == {"Inheritance", "Realization", "Composition", "DirectedAssoc"}

InitPath ==
    /\ style = default_style
    /\ pc = "path_input"
    /\ pipe = "class"
    /\ n = 0
    /\ line = ""
    /\ in_diagram = FALSE
    /\ parser = class_new
    /\ panicked = FALSE
    /\ \E from \in PathSources, to \in PathTargets, k \in PathKinds :
          diagram = [classes |-> <<from, to>>,
                     relationships |-> <<[from |-> "S", to |-> "T", rel_type |-> k,
                                          label |-> None]>>,
                     participants |-> <<>>, elements |-> <<>>]
    /\ layouts = 1
    /\ render = NoRender
    /\ svg = <<>>
    /\ sheets = NoSheets
    /\ css = NoCss
    /\ source = <<>>
    /\ extract = NoExtract
    /\ walk = NoWalk

\* render_relationship on the one relationship of the model.
PathApply ==
    /\ pc = "path_input"
    /\ svg' = render_relationship(diagram, diagram.relationships[1])
    /\ pc' = "path_done"
    /\ UNCHANGED <<pipe, n, line, in_diagram, parser, panicked, diagram, layouts, render,
                   sheets, css, source, extract, walk>>
    /\ UNCHANGED style

NextPath == PathApply

SpecPath == InitPath /\ [][NextPath]_vars

-----------------------------------------------------------------------------
(* class_diagram.rs render_with_file_css after parse and layout, one loop   *)
(* iteration at a time.                                                     *)

DrawNames == {"A", "PersistentEntity"}

DrawRels(S) ==
    {[from |-> f, to |-> t, rel_type |-> k[1], label |-> k[2]] :
        f \in S, t \in S,
        k \in {<<"Inheritance", None>>, <<"Composition", None>>,
               <<"DirectedAssoc", Some("uses")>>}}

InitDraw ==
    /\ style = default_style
    /\ pc = "draw"
    /\ pipe = "class"
    /\ n = 0
    /\ line = ""
    /\ in_diagram = FALSE
    /\ parser = class_new
    /\ panicked = FALSE
    /\ \E S \in (SUBSET DrawNames) \ {{}} :
          \E order \in Perms(S), rels \in SeqsUpTo(DrawRels(S), MaxRels) :
              diagram = class_layout(WalkDiagram(order, rels))
    /\ layouts = 1
    /\ render = NoRender
    /\ svg = <<>>
    /\ sheets = NoSheets
    /\ css = NoCss
    /\ source = <<>>
    /\ extract = NoExtract
    /\ walk = NoWalk

\* SvgBuilder::new and the defs block.
DrawBegin ==
    /\ pc = "draw"
    /\ svg' = class_render_begin
    /\ pc' = "drawing"
    /\ UNCHANGED <<pipe, n, line, in_diagram, parser, panicked, diagram, layouts, render,
                   sheets, css, source, extract, walk>>
    /\ UNCHANGED style

\* One iteration of `for rel in &diagram.relationships`.
DrawRel ==
    /\ pc = "drawing" /\ n < Len(diagram.relationships)
    /\ svg' = svg \o render_relationship(diagram, diagram.relationships[n + 1])
    /\ n' = n + 1
    /\ UNCHANGED <<pc, pipe, line, in_diagram, parser, panicked, diagram, layouts, render,
                   sheets, css, source, extract, walk>>
    /\ UNCHANGED style

\* One iteration of `for class in &diagram.classes`.
DrawClass ==
    /\ pc = "drawing" /\ n = Len(diagram.relationships) /\ render.i < Len(diagram.classes)
    /\ svg' = svg \o render_class(diagram.classes[render.i + 1])
    /\ render' = [render EXCEPT !.i = @ + 1]
    /\ UNCHANGED <<pc, pipe, n, line, in_diagram, parser, panicked, diagram, layouts,
                   sheets, css, source, extract, walk>>
    /\ UNCHANGED style

\* svg.finish()
DrawFinish ==
    /\ pc = "drawing" /\ n = Len(diagram.relationships) /\ render.i = Len(diagram.classes)
    /\ svg' = Append(svg, Prim("/svg", "", <<>>, "", ""))
    /\ pc' = "drawn"
    /\ UNCHANGED <<pipe, n, line, in_diagram, parser, panicked, diagram, layouts, render,
                   sheets, css, source, extract, walk>>
    /\ UNCHANGED style

NextDraw == DrawBegin \/ DrawRel \/ DrawClass \/ DrawFinish

SpecDraw == InitDraw /\ [][NextDraw]_vars

-----------------------------------------------------------------------------
(* class_diagram.rs render_with_file_css up to the call of bounds, for a    *)
(* caller's DiagramStyle whose margin and spacings are zero or the default. *)

PlaceNames == {"A", "B", "PersistentEntity"}

PlaceStyles ==
    {[default_style EXCEPT !.margin = m, !.spacing_x = sp[1], !.spacing_y = sp[2]] :
        m \in {0, default_style.margin},
        sp \in {<<0, 0>>, <<default_style.spacing_x, default_style.spacing_y>>}}

PlaceRels(S) ==
    UNION {{[from |-> f, to |-> t, rel_type |-> "Inheritance", label |-> None] :
               t \in S \ {f}} : f \in S}

\* The parsed model: the classes of tall have one field, the others none.
PlaceDiagram(order, tall, rels) ==
    [classes |->
        [i \in 1..Len(order) |->
            IF order[i] \in tall
            THEN [ClassDef(order[i], "Class", None) EXCEPT
                    !.fields = <<[visibility |-> Some("Public"), name |-> "f",
                                  field_type |-> Some("T"), is_static |-> FALSE]>>]
            ELSE ClassDef(order[i], "Class", None)],
     relationships |-> rels, participants |-> <<>>, elements |-> <<>>]

InitPlace ==
    /\ style \in PlaceStyles
    /\ pc = "parsed"
    /\ pipe = "class"
    /\ n = 0
    /\ line = ""
    /\ in_diagram = FALSE
    /\ parser = class_new
    /\ panicked = FALSE
    /\ \E S \in (SUBSET PlaceNames) \ {{}} :
          \E order \in Perms(S), tall \in SUBSET S,
             rels \in SeqsUpTo(PlaceRels(S), MaxRels) :
              diagram = PlaceDiagram(order, tall, rels)
    /\ layouts = 0
    /\ render = NoRender
    /\ svg = <<>>
    /\ sheets = NoSheets
    /\ css = NoCss
    /\ source = <<>>
    /\ extract = NoExtract
    /\ walk = NoWalk

\* `let (width, height) = diagram.bounds(style);`
ClassBounds ==
    /\ pc = "laid" /\ pipe = "class"
    /\ render' = [render EXCEPT !.width = class_bounds(diagram)[1],
                                !.height = class_bounds(diagram)[2]]
    /\ pc' = "bounded"
    /\ UNCHANGED <<pipe, n, line, in_diagram, parser, panicked, diagram, layouts,
                   svg, sheets, css, source, extract, walk, style>>

NextPlace == ClassLayout \/ ClassBounds

SpecPlace == InitPlace /\ [][NextPlace]_vars

-----------------------------------------------------------------------------
(* The claims.                                                             *)

\* Lines of the palettes that no rule of the parser recognizes when they are
\* read outside a class body.
UnrecognizedClassLines == {"+ f: T", "- g(p): R", "h)("}

UnrecognizedSeqLines == {"hello"}

\* C1: for every input both parsers return a model without failing (no
\* panic, no out-of-range slice), and a line that is not recognized leaves
\* the model unchanged.
C1_ParsersNeverFail ==
    [][/\ ~panicked'
       /\ (/\ pc = "parse" /\ n' = n + 1 /\ in_diagram
           /\ \/ pipe = "class" /\ ~parser.current_class.some
                 /\ line' \in UnrecognizedClassLines
              \/ pipe = "sequence" /\ line' \in UnrecognizedSeqLines)
          => parser' = parser]_vars

\* C2: no dangling reference: after every prefix of lines, and in the model
\* returned by parse, every relationship endpoint names an entity of the
\* model and every message endpoint names a participant of the model.
C2_NoDangling ==
    /\ pipe = "class" =>
         /\ \A i \in 1..Len(parser.relationships) :
               LET r == parser.relationships[i]
               IN  /\ {r.from, r.to} \subseteq DOMAIN parser.classes
                   /\ parser.classes[r.from].name = r.from
                   /\ parser.classes[r.to].name = r.to
         /\ pc \in {"parsed", "laid"} =>
               /\ diagram.relationships = parser.relationships
               /\ \A i \in 1..Len(diagram.relationships) :
                     /\ \E j \in 1..Len(diagram.classes) :
                           diagram.classes[j].name = diagram.relationships[i].from
                     /\ \E j \in 1..Len(diagram.classes) :
                           diagram.classes[j].name = diagram.relationships[i].to
    /\ pipe = "sequence" =>
         /\ \A i \in 1..Len(parser.elements) :
               LET e == parser.elements[i]
               IN  e.type = "Message" =>
                     /\ {e.from, e.to} \subseteq DOMAIN parser.participants
                     /\ parser.participants[e.from].name = e.from
                     /\ parser.participants[e.to].name = e.to
         /\ pc \in {"parsed", "laid", "render", "done"} =>
               /\ diagram.elements = parser.elements
               /\ \A i \in 1..Len(diagram.elements) :
                     diagram.elements[i].type = "Message" =>
                       /\ \E j \in 1..Len(diagram.participants) :
                             diagram.participants[j].name = diagram.elements[i].from
                       /\ \E j \in 1..Len(diagram.participants) :
                             diagram.participants[j].name = diagram.elements[i].to

\* A returned class model with two relationships, one of whose endpoints (C)
\* was never declared.
C2_Witness ==
    /\ pipe = "class" /\ pc = "laid"
    /\ Len(diagram.relationships) = 2
    /\ \E i \in 1..2 : diagram.relationships[i].from = "C"
    /\ \E j \in 1..Len(diagram.classes) : diagram.classes[j].name = "C"

\* C3: a relationship line creates exactly one entity per distinct endpoint
\* name that is not yet known, of kind Class with no field, no method and no
\* stereotype, and leaves every existing entity as it is; `A --|> B` alone
\* yields exactly the entities A and B.
C3_AutoCreate ==
    [][(/\ pipe = "class" /\ pc = "parse"
        /\ Len(parser'.relationships) = Len(parser.relationships) + 1)
       => LET r == parser'.relationships[Len(parser'.relationships)]
              old == DOMAIN parser.classes
          IN  /\ DOMAIN parser'.classes = old \cup {r.from, r.to}
              /\ \A k \in old : parser'.classes[k] = parser.classes[k]
              /\ \A k \in {r.from, r.to} \ old :
                    parser'.classes[k] =
                        [name |-> k, class_type |-> "Class", fields |-> <<>>,
                         methods |-> <<>>, stereotype |-> None,
                         x |-> 0, y |-> 0, width |-> 0, height |-> 0]
              /\ (n = 1 /\ in_diagram /\ line' = "A --|> B")
                    => DOMAIN parser'.classes = {"A", "B"}]_vars

\* `A --|> B` read when A is a declared class with a field and B is unknown.
C3_Witness ==
    /\ pipe = "class" /\ pc = "parse" /\ line = "A --|> B"
    /\ Len(parser.relationships) = 1
    /\ DOMAIN parser.classes = {"A", "B"}
    /\ Len(parser.classes["A"].fields) = 1
    /\ parser.classes["B"].fields = <<>>

\* The tokens whose first character is `<`, with their right-pointing mirrors.
MirrorPairs ==
    { <<"--|>", "<|--">>, <<"..|>", "<|..">>, <<"..>", "<..">>, <<"-->", "<--">> }

\* C4: for every relationship token the relationship is (from = left operand,
\* to = right operand) unless the matched token starts with `<`, and then it
\* is (from = right operand, to = left operand); `A --|> B` and `B <|-- A`
\* give the same Inheritance relationship, and so does every right-pointing
\* token and its left-pointing mirror.
C4_Direction ==
    pc = "rel_done" =>
        \A l \in Operands, r \in Operands, t \in Tokens, lb \in Labels :
            line = RelLine(l, t, r, lb) =>
                /\ Len(parser.relationships) = 1
                /\ parser.relationships[1].from = (IF SubSeq(t, 1, 1) = "<" THEN r ELSE l)
                /\ parser.relationships[1].to = (IF SubSeq(t, 1, 1) = "<" THEN l ELSE r)
                /\ t \in {"--|>", "<|--"} => parser.relationships[1].rel_type = "Inheritance"
                /\ \A mp \in MirrorPairs :
                      t = mp[1] =>
                        parser.relationships =
                            try_parse_relationship(class_new,
                                                   RelLine(r, mp[2], l, lb)).relationships

\* `B <|-- A` parsed: the relationship runs from A to B.
C4_Witness ==
    /\ pc = "rel_done" /\ line = "B <|-- A"
    /\ Len(parser.relationships) = 1
    /\ parser.relationships[1].from = "A"
    /\ parser.relationships[1].to = "B"

\* The style layers in rising priority: the defaults, each external sheet in
\* the order supplied, the inline block.
LayerSheets(sh) ==
    <<sh.default>> \o sh.external \o (IF sh.inline.some THEN <<sh.inline.v>> ELSE <<>>)

Categories == {"a", "b"}

Properties == {"rx", "ry", "rz"}

\* The fallback default a caller passes to css_prop_or.
Fallback == 0 - 1

\* The value of the highest layer that defines (class, prop), else dflt.
LayeredValue(sh, class, prop, dflt) ==
    LET L == LayerSheets(sh)
        defining == {k \in 1..Len(L) : get(from_css(L[k]).properties, class, prop).some}
    IN  IF defining = {} THEN dflt
        ELSE get(from_css(L[Max(defining)]).properties, class, prop).v

\* C5: every (category, property) key resolves to the value of the
\* highest-priority layer that defines it, in the order defaults < external
\* sheets in the order supplied < inline block, and to the caller's fallback
\* when no layer defines it.
C5_Cascade ==
    css.built =>
        \A c \in Categories, p \in Properties :
            get_or(css.properties, c, p, Fallback) = LayeredValue(sheets, c, p, Fallback)

\* The declaration lines of the sheets: line, property, whether the value is
\* numeric once `;` and `px` are stripped, and the number.
Declarations ==
    { <<"--rx: 4;", "rx", TRUE, 4>>, <<"--rx: 8px;", "rx", TRUE, 8>>,
      <<"--rx: 12;", "rx", TRUE, 12>>, <<"--rx: 5;", "rx", TRUE, 5>>,
      <<"--rx: 1;", "rx", TRUE, 1>>, <<"--rz: 2;", "rz", TRUE, 2>>,
      <<"--ry: 3;", "ry", TRUE, 3>>,
      <<"--rx: red;", "rx", FALSE, 0>>, <<"--ry: red;", "ry", FALSE, 0>> }

\* C6: a declaration whose value is not numeric is skipped without failing:
\* the merge never fails, the property table is unchanged by it (an earlier
\* value is kept), the block stays open so that the declarations after it
\* are still recorded, and a numeric declaration inside a block is recorded.
C6_BadDeclarationSkipped ==
    [][(pc = "css" /\ css'.i = css.i + 1)
       => /\ ~css'.failed
          /\ \A d \in Declarations :
                css_texts(sheets)[css.layer][css.i] = d[1] =>
                    IF d[3]
                    THEN css.current_class.some =>
                           /\ get(css'.properties, css.current_class.v, d[2])
                                = [some |-> TRUE, v |-> d[4]]
                           /\ \A c \in Categories, p \in Properties :
                                 <<c, p>> # <<css.current_class.v, d[2]>> =>
                                   get(css'.properties, c, p) = get(css.properties, c, p)
                    ELSE /\ css'.properties = css.properties
                         /\ css'.current_class = css.current_class
                         /\ css'.brace_depth = css.brace_depth]_vars

\* An external sheet with a bad declaration between two good ones, then an
\* inline sheet whose only declaration is bad: rx and rz are kept, ry is absent.
C6_Witness ==
    /\ css.built
    /\ sheets.external = <<shA8>>
    /\ sheets.inline = [some |-> TRUE, v |-> shBad]
    /\ get(css.properties, "a", "rx") = [some |-> TRUE, v |-> 8]
    /\ get(css.properties, "a", "rz") = [some |-> TRUE, v |-> 2]
    /\ ~get(css.properties, "a", "ry").some

\* C7: output is deterministic: the laid-out model (entity or participant
\* order, coordinates, draw order) is the same for every order in which the
\* name-keyed collection can be enumerated.
C7_Deterministic ==
    /\ (pipe = "class" /\ pc = "laid") =>
          \A order \in Perms(DOMAIN parser.classes) :
              class_layout(class_collect(parser, order)) = diagram
    /\ (pipe = "sequence" /\ pc \in {"laid", "render", "done"}) =>
          \A order \in Perms(DOMAIN parser.participants) :
              seq_layout(seq_collect(parser, order)) = diagram

\* The position and size of every entity and participant.
Geometry(d) ==
    [classes |-> [i \in 1..Len(d.classes) |->
                    <<d.classes[i].x, d.classes[i].y, d.classes[i].width, d.classes[i].height>>],
     participants |-> [i \in 1..Len(d.participants) |->
                         <<d.participants[i].x, d.participants[i].width>>]]

\* C8: layout is idempotent: a second layout of a laid-out model leaves every
\* position and size as the first layout set it.
C8_LayoutIdempotent ==
    [][(layouts >= 1 /\ layouts' = layouts + 1) => Geometry(diagram') = Geometry(diagram)]_vars

\* A class model laid out twice, with two layers and two entities in a row.
C8_Witness ==
    /\ pipe = "class" /\ pc = "laid" /\ layouts = 2
    /\ \E i \in 1..Len(diagram.classes) : diagram.classes[i].y > style.margin
    /\ \E i \in 1..Len(diagram.classes) : diagram.classes[i].x > style.margin

\* Everything of a model but its coordinates.
Content(d) ==
    [classes |-> [i \in 1..Len(d.classes) |->
                    [name |-> d.classes[i].name, class_type |-> d.classes[i].class_type,
                     stereotype |-> d.classes[i].stereotype, fields |-> d.classes[i].fields,
                     methods |-> d.classes[i].methods]],
     relationships |-> d.relationships,
     participants |-> [i \in 1..Len(d.participants) |->
                         [name |-> d.participants[i].name, order |-> d.participants[i].order]],
     elements |-> d.elements]

\* C9: layout adds and removes nothing and only assigns coordinates: the
\* entities with their name, kind, stereotype, fields and methods, the order
\* of the list, the relationships, the participants with name and order and
\* the elements are unchanged.
C9_LayoutFrame ==
    [][(layouts' = layouts + 1) => Content(diagram') = Content(diagram)]_vars

\* A laid-out class model holding an entity with a field and one with a
\* stereotype.
C9_Witness ==
    /\ pipe = "class" /\ pc = "laid"
    /\ \E i \in 1..Len(diagram.classes) :
          diagram.classes[i].fields # <<>> /\ diagram.classes[i].width > 0
    /\ \E i \in 1..Len(diagram.classes) : diagram.classes[i].stereotype.some

AltBoxes(out) == Cardinality({i \in 1..Len(out) : out[i].class = "alt-box"})

\* The number of AltEnd elements of es that close a pending AltStart, when
\* depth blocks are open before es.
RECURSIVE MatchedEnds(_, _)
MatchedEnds(es, depth) ==
    IF es = <<>> THEN 0
    ELSE IF es[1].type = "AltStart" THEN MatchedEnds(Tail(es), depth + 1)
    ELSE IF es[1].type = "AltEnd"
    THEN IF depth > 0 THEN 1 + MatchedEnds(Tail(es), depth - 1)
         ELSE MatchedEnds(Tail(es), 0)
    ELSE MatchedEnds(Tail(es), depth)

ElementTypes(d) == [i \in 1..Len(d.elements) |-> d.elements[i].type]

\* C10: for every element sequence the sequence rendering goes on to its
\* end and draws exactly one alt box per AltEnd processed while an AltStart
\* is pending, and none for an AltEnd without one; `alt X` / message / `end`
\* / `end` renders exactly one alt box.
C10_AltBoxes ==
    (pipe = "sequence" /\ pc \in {"render", "done"}) =>
        /\ AltBoxes(svg) = MatchedEnds(SubSeq(diagram.elements, 1, render.i - 1), 0)
        /\ pc = "render" => ENABLED (SeqRenderElem \/ SeqRenderFinish)
        /\ (pc = "done" /\ ElementTypes(diagram) = <<"AltStart", "Message", "AltEnd", "AltEnd">>)
              => AltBoxes(svg) = 1

\* `alt X` / message / `end` / `end` rendered to its end with one alt box.
C10_Witness ==
    /\ pipe = "sequence" /\ pc = "done"
    /\ ElementTypes(diagram) = <<"AltStart", "Message", "AltEnd", "AltEnd">>
    /\ AltBoxes(svg) = 1

\* The model d without its k-th element.
WithoutElement(d, k) ==
    [d EXCEPT !.elements = SubSeq(@, 1, k - 1) \o SubSeq(@, k + 1, Len(@))]

\* C11: an AltEnd processed while the alt stack is empty is a no-op: it emits
\* no markup and leaves the alt stack, the vertical cursor and the computed
\* image height as they are without that element.
C11_StrayEndNoOp ==
    [][(/\ pc = "render" /\ render.i <= Len(diagram.elements)
        /\ diagram.elements[render.i].type = "AltEnd"
        /\ render.alt_stack = <<>>
        /\ render'.i = render.i + 1)
       => /\ svg' = svg
          /\ render'.alt_stack = render.alt_stack
          /\ render'.current_y = render.current_y
          /\ render.height
               = seq_calculate_dimensions(WithoutElement(diagram, render.i)).height]_vars

\* The member lines of the inputs: line, visibility, name, type.
MemberLines ==
    { <<"+ f: T", Some("Public"), "f", Some("T")>>,
      <<"- g(p): R", Some("Private"), "g", Some("R")>> }

\* A step of the class parser on a line between the markers that is neither
\* skipped nor a marker.
ClassLineStep ==
    /\ pc = "parse" /\ pipe = "class" /\ n' = n + 1 /\ in_diagram
    /\ ~skipped(Trim(line'))
    /\ ~StartsWith(Trim(line'), "@start_uml") /\ ~StartsWith(Trim(line'), "@end_uml")

\* C12: inside a body `class N {` ... `}` each line with `(` appends exactly
\* one method and each line without `(` appends exactly one field to N, in
\* source order, with the visibility of a leading `+ - # ~` and the text
\* after `:` as the type.
C12_Members ==
    [][(ClassLineStep /\ parser.current_class.some /\ Trim(line') # "}")
       => LET N == parser.current_class.v
              c == parser.classes[N]
              c2 == parser'.classes[N]
              t == Trim(line')
          IN  /\ ~panicked'
              /\ IF Contains(t, "(")
                 THEN /\ c2.fields = c.fields
                      /\ Len(c2.methods) = Len(c.methods) + 1
                      /\ SubSeq(c2.methods, 1, Len(c.methods)) = c.methods
                 ELSE /\ c2.methods = c.methods
                      /\ Len(c2.fields) = Len(c.fields) + 1
                      /\ SubSeq(c2.fields, 1, Len(c.fields)) = c.fields
              /\ \A row \in MemberLines :
                    row[1] = t =>
                       IF Contains(t, "(")
                       THEN LET m == c2.methods[Len(c2.methods)]
                            IN  m.visibility = row[2] /\ m.name = row[3]
                                /\ m.return_type = row[4]
                       ELSE LET f == c2.fields[Len(c2.fields)]
                            IN  f.visibility = row[2] /\ f.name = row[3]
                                /\ f.field_type = row[4]]_vars

\* C13: for every valid header line the parsed entity is keyed and named by
\* the name alone, has the stereotype written in `<<..>>` or none, and has the
\* kind of the keyword; the rendering of the declared entity shows its name.
C13_Header ==
    \A h \in Headers :
        (line = h.line /\ pc \in {"decl_done", "decl_rendered"}) =>
            /\ ~panicked
            /\ DOMAIN parser.classes = {h.name}
            /\ parser.classes[h.name].name = h.name
            /\ parser.classes[h.name].class_type = h.kind
            /\ parser.classes[h.name].stereotype = h.stereotype
            /\ parser.classes[h.name].fields = <<>>
            /\ parser.classes[h.name].methods = <<>>
            /\ pc = "decl_rendered" =>
                  \E i \in 1..Len(svg) : svg[i].tag = "text" /\ svg[i].text = h.name

\* `class Foo<<svc>> {` parsed and rendered.
C13_Witness ==
    /\ pc = "decl_rendered"
    /\ line = "class Foo<<svc>> {"
    /\ "Foo" \in DOMAIN parser.classes
    /\ parser.classes["Foo"].stereotype = Some("svc")
    /\ \E i \in 1..Len(svg) : svg[i].class = "class-name" /\ svg[i].text = "Foo"

\* What the claim says of the steps on message line m, with `shown` the
\* text the rendering has to contain.
MessageSteps(m, shown) ==
    /\ (pc = "msg_input" /\ pc' = "msg_done") =>
          /\ parser'.elements = <<Message(m.from, m.to, m.text, m.style)>>
          /\ DOMAIN parser'.participants = DOMAIN parser.participants \cup {m.from, m.to}
          /\ \A k \in DOMAIN parser.participants :
                parser'.participants[k] = parser.participants[k]
          /\ \A k \in DOMAIN parser'.participants : parser'.participants[k].name = k
    /\ (pc = "msg_done" /\ pc' = "msg_rendered") =>
          /\ Cardinality({i \in 1..Len(svg') : svg'[i].marker # ""}) = 1
          /\ \E i \in 1..Len(svg') :
                svg'[i].class = "message-text" /\ svg'[i].text = shown
          /\ (/\ DOMAIN parser.participants = {"A", "B"}
              /\ parser.participants["A"].order < parser.participants["B"].order)
                => [i \in 1..Len(diagram'.participants) |-> diagram'.participants[i].name]
                     = <<"A", "B">>

\* C14: each message line yields exactly one Message with its endpoints, the
\* text after the colon and the style of its token, the undeclared endpoints
\* are created once each, and the rendering contains the message text (as
\* markup, XML-escaped) and one arrowhead reference per Message.
C14_Message ==
    [][\A m \in Msgs : line = m.line => MessageSteps(m, m.markup)]_vars

\* C15: both parsers ignore what is outside the marker pair: a blank line, a
\* `//` comment line and every line before the begin marker change nothing
\* of the parser, and nothing is parsed once the end marker is read.
C15_OutsideIgnored ==
    [][/\ (/\ pc = "parse" /\ n' = n + 1
           /\ \/ ~in_diagram
              \/ Trim(line') = ""
              \/ StartsWith(Trim(line'), "//"))
          => parser' = parser /\ ~panicked'
       /\ (/\ pc = "parse" /\ n' = n + 1
           /\ (Trim(line') = "" \/ StartsWith(Trim(line'), "//")))
          => in_diagram' = in_diagram /\ pc' = "parse"
       /\ pc = "break" => parser' = parser /\ n' = n]_vars

\* A comment line holding a relationship read between the markers, after
\* two lines that left the parser empty.
C15_Witness ==
    /\ pc = "parse" /\ in_diagram /\ n = 3
    /\ line \in {"// A --|> B", "// A -> B: ping"}
    /\ parser \in {class_new, seq_new}

\* The lines handed to detection: whether each bears a Class marker (an
\* entity header, or an inheritance, realization, composition or aggregation
\* token) and whether it bears a Sequence marker (a participant or actor
\* declaration, or `->` together with `:`).
KindMarkers ==
    { <<"class A {", TRUE, FALSE>>, <<"  enum E", TRUE, FALSE>>, <<"A --|> B", TRUE, FALSE>>,
      <<"A *-- B: x->y", TRUE, TRUE>>, <<"participant A", FALSE, TRUE>>,
      <<"actor U", FALSE, TRUE>>, <<"A -> B: ping", FALSE, TRUE>>,
      <<"A -> B", FALSE, FALSE>>, <<"hello", FALSE, FALSE>> }

BearsClass(l) == \E k \in KindMarkers : k[1] = l /\ k[2]

BearsSequence(l) == \E k \in KindMarkers : k[1] = l /\ k[3]

\* The kind the claim gives a source: that of its first marker-bearing line,
\* Class if that line bears both markers, Sequence if no line bears one.
KindOf(src) ==
    LET marked == {i \in 1..Len(src) : BearsClass(src[i]) \/ BearsSequence(src[i])}
    IN  IF marked = {} THEN "sequence"
        ELSE IF BearsClass(src[Min(marked)]) THEN "class" ELSE "sequence"

\* C16: detection returns exactly one of the two kinds for every source: the
\* kind of the first line bearing a marker, Class when that line bears both
\* kinds of marker, and Sequence when no line bears a marker.
C16_Detection ==
    /\ pc = "detected" => pipe \in {"class", "sequence"} /\ pipe = KindOf(source)
    /\ pc = "detect" => ENABLED NextDetect

\* A source whose first marker-bearing line bears both markers, after a line
\* without one and before a Sequence line.
C16_Witness ==
    /\ pc = "detected"
    /\ source = <<"A -> B", "A *-- B: x->y", "participant A">>
    /\ pipe = "class"

\* The style block of a source: the position of the first `@start_style`
\* line and of the `@end_style` line that follows it, 0 for none.
StyleStart(src) ==
    LET hits == {i \in 1..Len(src) : src[i] = "@start_style"}
    IN  IF hits = {} THEN 0 ELSE Min(hits)

StyleEnd(src) ==
    LET hits == {i \in 1..Len(src) : i > StyleStart(src) /\ src[i] = "@end_style"}
    IN  IF StyleStart(src) = 0 \/ hits = {} THEN 0 ELSE Min(hits)

\* The lines strictly between the marker pair, without the comment lines.
RECURSIVE Between(_, _, _)
Between(src, i, end) ==
    IF i >= end THEN <<>>
    ELSE IF StartsWith(Trim(src[i]), "//") THEN Between(src, i + 1, end)
    ELSE <<src[i]>> \o Between(src, i + 1, end)

\* C17: extraction returns the raw lines strictly between the `@start_style`
\* line and the following `@end_style` line, in source order, without the
\* `//` lines; no sheet when there is no style block or no such line in it;
\* no line outside the marker pair is part of the sheet.
C17_Extraction ==
    pc = "extracted" =>
        LET lines == IF StyleEnd(source) = 0 THEN <<>>
                     ELSE Between(source, StyleStart(source) + 1, StyleEnd(source))
        IN  /\ sheets.inline.some = (lines # <<>>)
            /\ sheets.inline.v = lines

\* The lines of one step's slot discipline: what a line may do to the
\* entities when the slot is set to N, and when it is clear.
MemberOf(N, t) ==
    LET c == parser.classes[N]
        c2 == parser'.classes[N]
    IN  /\ ~panicked'
        /\ parser'.current_class = parser.current_class
        /\ DOMAIN parser'.classes = DOMAIN parser.classes
        /\ parser'.relationships = parser.relationships
        /\ \A o \in DOMAIN parser.classes \ {N} : parser'.classes[o] = parser.classes[o]
        /\ IF Contains(t, "(")
           THEN c2.fields = c.fields /\ Len(c2.methods) = Len(c.methods) + 1
           ELSE c2.methods = c.methods /\ Len(c2.fields) = Len(c.fields) + 1

NoMemberAdded ==
    \A o \in DOMAIN parser'.classes :
        IF o \in DOMAIN parser.classes
        THEN /\ Len(parser'.classes[o].fields) <= Len(parser.classes[o].fields)
             /\ Len(parser'.classes[o].methods) <= Len(parser.classes[o].methods)
        ELSE parser'.classes[o].fields = <<>> /\ parser'.classes[o].methods = <<>>

\* C18: the current-entity slot is set exactly by a header line ending in `{`
\* and cleared exactly by a lone `}`; while it is set every other line becomes
\* one member of that entity (a method if it holds `(`, else a field) and
\* creates no entity, no relationship and changes no other entity; while it is
\* clear no line adds a field or a method to any entity.
C18_CurrentSlot ==
    [][ClassLineStep
       => LET t == Trim(line')
          IN  IF t = "}"
              THEN parser' = [parser EXCEPT !.current_class = None]
              ELSE IF parser.current_class.some
              THEN MemberOf(parser.current_class.v, t)
              ELSE /\ parser'.current_class.some <=> (is_decl(t) /\ EndsWith(t, "{"))
                   /\ NoMemberAdded]_vars

\* The tokens of the ordered list that occur in a line, by their number.
FoundTokens(l) == {i \in 1..Len(patterns) : Find(l, patterns[i][1]) # -1}

\* The relationship that token number i alone gives for a line: the split at
\* the token's first occurrence, the label after `:`, the direction by `<`.
RelBy(l, i) ==
    LET t == patterns[i][1]
        pos == Find(l, t)
        left == Trim(Slice(l, 0, pos))
        rest == Trim(SliceFrom(l, pos + Len(t)))
        colon == Find(rest, ":")
        right == IF colon = -1 THEN rest ELSE Trim(Slice(rest, 0, colon))
        label == IF colon = -1 THEN None ELSE Some(Trim(SliceFrom(rest, colon + 1)))
    IN  [from |-> IF SubSeq(t, 1, 1) = "<" THEN right ELSE left,
         to |-> IF SubSeq(t, 1, 1) = "<" THEN left ELSE right,
         rel_type |-> patterns[i][2], label |-> label]

\* C19: a line is classified by the first token of the ordered list found
\* anywhere in it: that token alone gives the kind, the operands and the
\* label, no later token is considered, and a line yields at most one
\* relationship.
C19_FirstTokenWins ==
    pc = "rel_done" =>
        LET l == Trim(line)
        IN  /\ Len(parser.relationships) <= 1
            /\ FoundTokens(l) = {} => parser.relationships = <<>>
            /\ \A k \in 1..Len(parser.relationships) :
                  parser.relationships[k] = RelBy(l, Min(FoundTokens(l)))

\* The entities of d with no outgoing inheritance or realization edge.
Roots(d) ==
    {d.classes[i].name : i \in {j \in 1..Len(d.classes) :
                                  is_root(d.relationships, d.classes[j].name)}}

\* The entities one child-map edge below an entity of the set S.
KidsOf(d, S) ==
    UNION {{children(d.relationships, p)[i] : i \in 1..Len(children(d.relationships, p))}
           : p \in S}

\* Breadth-first layers: frontier holds the entities at k edges from a root,
\* seen the nearer ones; the result maps each reached entity to its distance.
RECURSIVE BfsLayers(_, _, _, _)
BfsLayers(d, frontier, seen, k) ==
    IF frontier = {} THEN [x \in {} |-> 0]
    ELSE LET deeper == BfsLayers(d, KidsOf(d, frontier) \ (seen \cup frontier),
                                 seen \cup frontier, k + 1)
         IN  [x \in frontier \cup DOMAIN deeper |-> IF x \in frontier THEN k ELSE deeper[x]]

\* The layer an entity was placed in: the number of rows above its row.
RowOf(d, i) ==
    Cardinality({d.classes[j].y : j \in {m \in 1..Len(d.classes) :
                                           d.classes[m].y < d.classes[i].y}})

\* C20: placement puts every entity reachable from the roots in the layer a
\* breadth-first traversal from all roots gives it: a root in layer 0, any
\* other reachable entity at its minimum number of child-map edges from a
\* root.
C20_BfsLayers ==
    (pipe = "class" /\ pc = "laid") =>
        LET bfs == BfsLayers(diagram, Roots(diagram), {}, 0)
        IN  \A i \in 1..Len(diagram.classes) :
                diagram.classes[i].name \in DOMAIN bfs =>
                    RowOf(diagram, i) = bfs[diagram.classes[i].name]

\* The entities a traversal from the start set reaches over child-map edges.
RECURSIVE ReachedFrom(_, _)
ReachedFrom(d, S) ==
    LET more == S \cup (KidsOf(d, S) \cap {d.classes[i].name : i \in 1..Len(d.classes)})
    IN  IF more = S THEN S ELSE ReachedFrom(d, more)

\* The layers of a finished placement: one layer for each entity and for
\* nothing else, layer 0 for the single start when there is no root, and for
\* each entity out of reach of the start set the greatest layer in reach + 1.
LayersComplete ==
    LET all == {diagram.classes[i].name : i \in 1..Len(diagram.classes)}
        start == IF Roots(diagram) = {} THEN {diagram.classes[1].name} ELSE Roots(diagram)
        reached == ReachedFrom(diagram, start)
        top == Max({walk.layers[r] : r \in reached})
    IN  /\ DOMAIN walk.layers = all
        /\ \A nm \in all : walk.layers[nm] \in Nat
        /\ Roots(diagram) = {} =>
              /\ walk.layers[diagram.classes[1].name] = 0
              /\ \A nm \in reached \ start : walk.layers[nm] > 0
        /\ \A nm \in all \ reached : walk.layers[nm] = top + 1

\* C21: the traversal of a non-empty model ends, also on cyclic
\* relationships; then every entity has exactly one layer, every entity the
\* traversal did not reach has the greatest reached layer + 1, and with no
\* root the traversal started from a single entity placed at layer 0.
C21_WalkEnds ==
    <>(pc = "walked" /\ LayersComplete)

\* A finished placement of a cycle beside a root: the cycle is out of reach.
C21_Witness ==
    /\ pc = "walked"
    /\ Len(diagram.classes) = 3
    /\ \E i, j \in 1..Len(diagram.relationships) :
          /\ diagram.relationships[i].from = diagram.relationships[j].to
          /\ diagram.relationships[i].to = diagram.relationships[j].from
          /\ diagram.relationships[i].from # diagram.relationships[i].to
          /\ diagram.relationships[i].rel_type = "Inheritance"
          /\ diagram.relationships[j].rel_type = "Inheritance"
    /\ \E nm \in DOMAIN walk.layers : walk.layers[nm] = 1
    /\ \E nm \in DOMAIN walk.layers : walk.layers[nm] = 0

\* The text lines an entity shows: its name, its stereotype label as
\* rendered, its formatted fields and methods.
ShownTexts(c) ==
    {c.name}
    \cup (IF c.stereotype.some THEN {"<<" \o c.stereotype.v \o ">>"} ELSE {})
    \cup {format_member(c.fields[i].visibility, c.fields[i].name, c.fields[i].field_type) :
            i \in 1..Len(c.fields)}
    \cup {format_method_text(c.methods[i]) : i \in 1..Len(c.methods)}

\* C22: after sizing, an entity's width is the greatest of the minimum width
\* (120) and the text widths (characters times the character advance, plus
\* the padding on both sides) of its name, its stereotype, its field lines and
\* its method lines; no box is narrower than its stereotype label.
C22_Width ==
    (pipe = "class" /\ pc \in {"laid", "decl_rendered"}) =>
        \A i \in 1..Len(diagram.classes) :
            LET c == diagram.classes[i]
            IN  c.width = Max({120 * FP}
                              \cup {Len(t) * style.char_width + 2 * style.padding :
                                      t \in ShownTexts(c)})

\* The kinds of fragment in class-diagram output.
IsConnector(p) == p.tag = "polyline" \/ p.class = "relationship-label"

IsFrame(p) == p.tag \in {"svg", "style", "defs", "/svg"}

IsEntity(p) == ~IsConnector(p) /\ ~IsFrame(p)

\* The marker each kind of relationship is drawn with.
KindMarker(k) ==
    CASE k = "Inheritance" -> "url(#cls-triangle)"
      [] k = "Composition" -> "url(#cls-diamond-filled)"
      [] k = "DirectedAssoc" -> "url(#cls-arrow)"
      [] OTHER -> ""

PathFrom == diagram.classes[find_class(diagram.classes, diagram.relationships[1].from)]

PathTo == diagram.classes[find_class(diagram.classes, diagram.relationships[1].to)]

Cx(b) == b.x + b.width \div 2

Cy(b) == b.y + b.height \div 2

\* A point on the border of a box.
OnBorder(pt, b) ==
    /\ b.x <= pt[1] /\ pt[1] <= b.x + b.width
    /\ b.y <= pt[2] /\ pt[2] <= b.y + b.height
    /\ pt[1] \in {b.x, b.x + b.width} \/ pt[2] \in {b.y, b.y + b.height}

\* The route of the tie-break table for source box f, target box t and kind k.
TableRoute(f, t, k) ==
    LET dx == Cx(t) - Cx(f)
        dy == Cy(t) - Cy(f)
        vertical_kind == k \in {"Inheritance", "Realization"}
        \* facing top/bottom edges: the source's bottom and the target's top
        \* when the target is below, else the source's top and the target's bottom
        y_out == IF dy > 0 THEN f.y + f.height ELSE f.y
        y_in == IF dy > 0 THEN t.y ELSE t.y + t.height
        y_mid == (y_out + y_in) \div 2
        \* facing side edges
        x_out == IF dx > 0 THEN f.x + f.width ELSE f.x
        x_in == IF dx > 0 THEN t.x ELSE t.x + t.width
        x_mid == (x_out + x_in) \div 2
        x_gap == abs(x_in - x_out)
        toward == IF dx > 0 THEN 1 ELSE 0 - 1
        y_detour == IF Cy(f) > Cy(t)
                    THEN (IF f.y < t.y THEN f.y ELSE t.y) - 15 * FP
                    ELSE (IF f.y + f.height > t.y + t.height THEN f.y + f.height
                          ELSE t.y + t.height) + 15 * FP
        vertical_route == << <<Cx(f), y_out>>, <<Cx(f), y_mid>>, <<Cx(t), y_mid>>,
                             <<Cx(t), y_in>> >>
    IN  IF vertical_kind /\ abs(dy) > 20 * FP
        THEN IF abs(dx) < 10 * FP THEN << <<Cx(f), y_out>>, <<Cx(t), y_in>> >>
             ELSE vertical_route
        ELSE IF abs(dx) > abs(dy) \/ ~vertical_kind
        THEN IF (IF dx > 0 THEN x_in - x_out ELSE x_out - x_in) > 30 * FP
             THEN << <<x_out, Cy(f)>>, <<x_mid, Cy(f)>>, <<x_mid, Cy(t)>>, <<x_in, Cy(t)>> >>
             ELSE << <<x_out, Cy(f)>>, <<x_out + toward * 15 * FP, Cy(f)>>,
                     <<x_out + toward * 15 * FP, y_detour>>,
                     <<x_in - toward * 15 * FP, y_detour>>,
                     <<x_in - toward * 15 * FP, Cy(t)>>, <<x_in, Cy(t)>> >>
        ELSE vertical_route

\* C24: the connector follows the tie-break table (vertical 2- or 4-point
\* route for inheritance/realization with |dy| > 20; else horizontal 4-point
\* route or 6-point detour when |dx| > |dy| or the kind is not
\* vertical-preferred; else the 4-point vertical route); every path has 2, 4
\* or 6 points, starts on the source's border and ends on the target's border.
C24_Routing ==
    pc = "path_done" =>
        /\ Len(svg) = 1
        /\ svg[1].geom = TableRoute(PathFrom, PathTo, diagram.relationships[1].rel_type)
        /\ Len(svg[1].geom) \in {2, 4, 6}
        /\ OnBorder(svg[1].geom[1], PathFrom)
        /\ OnBorder(svg[1].geom[Len(svg[1].geom)], PathTo)

\* A composition routed around two boxes whose facing sides are 20 apart:
\* the six-point detour.
C24_Witness ==
    /\ pc = "path_done"
    /\ diagram.relationships[1].rel_type = "Composition"
    /\ PathFrom.x = 60 * FP /\ PathFrom.y = 70 * FP
    /\ Len(svg[1].geom) = 6

\* C25: every connector path is orthogonal: two consecutive points share x or
\* share y; the straight route for aligned boxes is a vertical segment.
C25_Orthogonal ==
    \A i \in 1..Len(svg) :
        svg[i].tag = "polyline" =>
            \A k \in 1..(Len(svg[i].geom) - 1) :
                \/ svg[i].geom[k][1] = svg[i].geom[k + 1][1]
                \/ svg[i].geom[k][2] = svg[i].geom[k + 1][2]

\* A step of the sequence parser on a line between the markers that is
\* neither skipped nor a marker.
SeqLineStep ==
    /\ pc = "parse" /\ pipe = "sequence" /\ n' = n + 1 /\ in_diagram
    /\ ~skipped(Trim(line'))
    /\ ~StartsWith(Trim(line'), "@start_uml") /\ ~StartsWith(Trim(line'), "@end_uml")

\* The declarations of the inputs that carry `order N`: line, name, N.
OrderLines == { <<"participant B order 0", "B", 0>> }

\* What a parser step may do to the participants: each one created by the
\* line gets the number of participants created before it, or the N of the
\* line's `order N`; a declaration with `order N` leaves its participant at N.
OrderStep ==
    LET old == DOMAIN parser.participants
        new == DOMAIN parser'.participants \ old
        t == Trim(line')
        declared == {d \in OrderLines : d[1] = t}
        last == parser'.elements[Len(parser'.elements)]
    IN  /\ \A x \in old : parser'.participants[x] = parser.participants[x]
        /\ \A d \in declared : d[2] \in DOMAIN parser'.participants
                               /\ parser'.participants[d[2]].order = d[3]
        /\ declared = {} =>
              \A x \in new :
                  parser'.participants[x].order =
                      Cardinality(old)
                      + (IF Cardinality(new) = 2 /\ x = last.to THEN 1 ELSE 0)

\* C26: the participant list returned by the parser is sorted by order, each
\* name once; a participant declared without `order N` or created by a
\* message gets the number of participants created before it; `order N`
\* replaces that value by N.
C26_Order ==
    [][/\ SeqLineStep => OrderStep
       /\ (pipe = "sequence" /\ pc \in {"parse", "break"} /\ pc' = "parsed") =>
             /\ {diagram'.participants[i].name : i \in 1..Len(diagram'.participants)}
                  = DOMAIN parser.participants
             /\ Len(diagram'.participants) = Cardinality(DOMAIN parser.participants)
             /\ \A i \in 1..Len(diagram'.participants) :
                   diagram'.participants[i]
                     = parser.participants[diagram'.participants[i].name]
             /\ \A i, j \in 1..Len(diagram'.participants) :
                   i < j => diagram'.participants[i].order <= diagram'.participants[j].order
      ]_vars

\* The header lines of the inputs: line, name, kind, stereotype.
DeclLines ==
    { <<"class A {", "A", "Class", None>>,
      <<"interface B<<svc>>", "B", "Interface", Some("svc")>> }

\* C27: a header line for a name that already exists (declared or created by
\* a relationship) replaces the entity: the model holds one entity of that
\* name, with the kind and the stereotype of the later declaration and none of
\* the earlier members; the other entities and the relationships are as
\* before, and every relationship endpoint still names an entity.
C27_LastWriterWins ==
    [][/\ \A h \in DeclLines :
             (/\ ClassLineStep /\ Trim(line') = h[1]
              /\ ~parser.current_class.some
              /\ h[2] \in DOMAIN parser.classes)
             => /\ ~panicked'
                /\ DOMAIN parser'.classes = DOMAIN parser.classes
                /\ parser'.classes[h[2]] = ClassDef(h[2], h[3], h[4])
                /\ \A o \in DOMAIN parser.classes \ {h[2]} :
                      parser'.classes[o] = parser.classes[o]
                /\ parser'.relationships = parser.relationships
                /\ \A i \in 1..Len(parser'.relationships) :
                      {parser'.relationships[i].from, parser'.relationships[i].to}
                          \subseteq DOMAIN parser'.classes
       /\ (pipe = "class" /\ pc \in {"parse", "break"} /\ pc' = "parsed") =>
             /\ Len(diagram'.classes) = Cardinality(DOMAIN parser.classes)
             /\ \A i \in 1..Len(diagram'.classes) :
                   diagram'.classes[i] = parser.classes[diagram'.classes[i].name]
             /\ \A i, j \in 1..Len(diagram'.classes) :
                   diagram'.classes[i].name = diagram'.classes[j].name => i = j
      ]_vars

\* `A --|> B` created B as a class; the later `interface B<<svc>>` made it an
\* interface with a stereotype, and the relationship still ends at B.
C27_Witness ==
    /\ pipe = "class" /\ pc = "parsed"
    /\ line = "interface B<<svc>>"
    /\ Len(diagram.relationships) = 1
    /\ diagram.relationships[1].to = "B"
    /\ \E i \in 1..Len(diagram.classes) :
          /\ diagram.classes[i].name = "B"
          /\ diagram.classes[i].class_type = "Interface"
          /\ diagram.classes[i].stereotype = Some("svc")

\* The braces of a style text read character by character: B holds the
\* category whose block is open (or none) and the number of open braces.
\* Characters k..stop of s are read.
RECURSIVE ScanBraces(_, _, _, _)
ScanBraces(B, s, k, stop) ==
    IF k > stop THEN B
    ELSE LET c == SubSeq(s, k, k)
             B2 == IF ~B.cat.some THEN B
                   ELSE IF c = "{" THEN [B EXCEPT !.depth = @ + 1]
                   ELSE IF c = "}"
                   THEN IF B.depth = 1 THEN [cat |-> None, depth |-> 0]
                        ELSE [B EXCEPT !.depth = @ - 1]
                   ELSE B
         IN  ScanBraces(B2, s, k + 1, stop)

\* One line read up to character stop: a selector line `.C ... {` opens the
\* block of C at its brace.
ScanLine(B, l, stop) ==
    LET t == Trim(l)
        open == Find(t, "{")
    IN  IF StartsWith(t, ".") /\ open # -1
        THEN IF stop <= open THEN B
             ELSE ScanBraces([cat |-> Some(Slice(t, 1, find_class_end(t))), depth |-> 0],
                             t, open + 1, stop)
        ELSE ScanBraces(B, t, 1, stop)

\* The category whose block holds the declaration of line i of a text: the
\* text is read up to the `--` of that line.
RECURSIVE BlockBefore(_, _, _)
BlockBefore(text, i, j) ==
    IF j = 0 THEN [cat |-> None, depth |-> 0]
    ELSE LET B == BlockBefore(text, i, j - 1)
         IN  IF j < i THEN ScanLine(B, text[j], Len(Trim(text[j])))
             ELSE ScanLine(B, text[j], Find(Trim(text[j]), "--"))

\* C28: a declaration is recorded under category C only when it lies after
\* the open brace of C's selector line and before the matching close brace; a
\* declaration outside every block or after a block's close brace is recorded
\* under no category; the depth counter is at least 1 whenever a current
\* category is set.
C28_InsideBlockOnly ==
    [][(pc = "css" /\ css'.i = css.i + 1)
       => LET text == css_texts(sheets)[css.layer]
              inside == BlockBefore(text, css.i, css.i).cat
          IN  /\ \A c \in Categories, p \in Properties :
                    get(css'.properties, c, p) # get(css.properties, c, p) =>
                        /\ Find(Trim(text[css.i]), "--") # -1
                        /\ inside = Some(c)
              /\ css'.current_class.some => css'.brace_depth >= 1]_vars


\* The boxes i and j of the placed model have a point in common that is inside
\* both of them.
Overlap(d, i, j) ==
    LET a == d.classes[i]
        b == d.classes[j]
    IN  /\ a.x < b.x + b.width /\ b.x < a.x + a.width
        /\ a.y < b.y + b.height /\ b.y < a.y + a.height

\* The indices of the row of layer l, in the order of the list.
RowAt(d, L, l) == {i \in 1..Len(d.classes) : L[d.classes[i].name] = l}

\* C29: after placement under a style with non-negative margin and spacings no
\* two distinct boxes overlap; the boxes of one layer share their y and follow
\* one another from left to right, each a horizontal spacing after the right
\* edge of the one before; each later layer starts the vertical spacing below
\* the bottom of the tallest box of the layer before; and once the bounds are
\* taken, every box lies inside 0..width and 0..height.
C29_Placement ==
    (pipe = "class" /\ pc \in {"laid", "bounded"} /\ style.margin >= 0
        /\ style.spacing_x >= 0 /\ style.spacing_y >= 0) =>
        LET d == diagram
            L == assign_layers(d)
            idx == 1..Len(d.classes)
            present == {L[d.classes[i].name] : i \in idx}
        IN  /\ \A i, j \in idx : i # j => ~Overlap(d, i, j)
            /\ \A l \in present :
                  \A i, j \in RowAt(d, L, l) :
                      /\ d.classes[i].y = d.classes[j].y
                      /\ (i < j /\ ~\E k \in RowAt(d, L, l) : i < k /\ k < j) =>
                            d.classes[j].x
                              = d.classes[i].x + d.classes[i].width + style.spacing_x
            /\ \A la, lb \in present :
                  (la < lb /\ ~\E lc \in present : la < lc /\ lc < lb) =>
                      \A j \in RowAt(d, L, lb) :
                          d.classes[j].y
                            = Max({d.classes[i].y + d.classes[i].height :
                                      i \in RowAt(d, L, la)}) + style.spacing_y
            /\ pc = "bounded" =>
                  \A i \in idx :
                      /\ 0 <= d.classes[i].x
                      /\ d.classes[i].x + d.classes[i].width <= render.width
                      /\ 0 <= d.classes[i].y
                      /\ d.classes[i].y + d.classes[i].height <= render.height

\* Placement without margin and spacing: a row of two boxes of different
\* heights, the shorter one first, above another row.
C29_Witness ==
    /\ pc = "bounded" /\ style.margin = 0 /\ style.spacing_x = 0 /\ style.spacing_y = 0
    /\ \E i, j, k \in 1..Len(diagram.classes) :
          /\ i < j
          /\ diagram.classes[i].y = diagram.classes[j].y
          /\ diagram.classes[i].height < diagram.classes[j].height
          /\ diagram.classes[k].y > diagram.classes[i].y


\* The alt boxes among the primitives of out, in the order they were pushed.
AltBoxSeq(out) == SelectSeq(out, LAMBDA q : q.class = "alt-box")

StartsIn(es) == Cardinality({i \in 1..Len(es) : es[i].type = "AltStart"})

\* C30: block matching of the sequence rendering is last-in first-out.  An
\* AltStart pushes the cursor y it is processed at; an AltEnd processed with a
\* non-empty stack removes the entry pushed last and draws one box from that
\* entry's y to the cursor y of the end, of positive height, which encloses
\* vertically every box drawn since that start and lies below every box
\* drawn before it; an `else` draws its divider across the bounds of the top
\* entry and leaves the stack as it is; the depth of the stack is the number
\* of starts processed minus the number of ends that closed one.
C30_AltLifo ==
    [][(/\ pipe = "sequence" /\ pc = "render" /\ render.i <= Len(diagram.elements)
        /\ render'.i = render.i + 1)
       => LET e == diagram.elements[render.i]
              stack == render.alt_stack
              y == render.current_y
              top == stack[Len(stack)]
              new == SubSeq(svg', Len(svg) + 1, Len(svg'))
              drawn == AltBoxSeq(svg)
              done == SubSeq(diagram.elements, 1, render.i)
          IN  /\ SubSeq(svg', 1, Len(svg)) = svg
              /\ e.type = "AltStart" =>
                    /\ Len(render'.alt_stack) = Len(stack) + 1
                    /\ SubSeq(render'.alt_stack, 1, Len(stack)) = stack
                    /\ render'.alt_stack[Len(stack) + 1][1] = y
                    /\ AltBoxSeq(new) = <<>>
              /\ (e.type = "AltEnd" /\ stack # <<>>) =>
                    /\ render'.alt_stack = SubSeq(stack, 1, Len(stack) - 1)
                    /\ Len(AltBoxSeq(new)) = 1
                    /\ LET g == AltBoxSeq(new)[1].geom
                       IN  /\ g[1] = top[2] /\ g[3] = top[3] - top[2]
                           /\ g[2] = top[1] /\ g[2] + g[4] = y
                           /\ g[4] > 0
                           /\ \A k \in 1..Len(drawn) :
                                 LET h == drawn[k].geom
                                 IN  IF h[2] >= top[1]
                                     THEN g[2] <= h[2] /\ h[2] + h[4] <= g[2] + g[4]
                                     ELSE h[2] + h[4] <= g[2]
              /\ (e.type = "AltEnd" /\ stack = <<>>) =>
                    render'.alt_stack = <<>> /\ new = <<>>
              /\ e.type = "ElseBranch" =>
                    /\ render'.alt_stack = stack
                    /\ IF stack = <<>> THEN new = <<>>
                       ELSE /\ new # <<>>
                            /\ new[1].class = "alt-divider"
                            /\ new[1].geom = <<top[2], y, top[3], y>>
                            /\ AltBoxSeq(new) = <<>>
              /\ e.type \notin {"AltStart", "AltEnd"} => render'.alt_stack = stack
              /\ Len(render'.alt_stack) = StartsIn(done) - MatchedEnds(done, 0)
      ]_vars

\* `alt X` / `alt X` / `end` / `end` rendered: two boxes, the one of the inner
\* block drawn first and strictly inside the one of the outer block.
C30_Witness ==
    /\ pipe = "sequence" /\ pc = "render" /\ render.i = 5
    /\ ElementTypes(diagram) = <<"AltStart", "AltStart", "AltEnd", "AltEnd">>
    /\ render.alt_stack = <<>>
    /\ Len(AltBoxSeq(svg)) = 2
    /\ LET inner == AltBoxSeq(svg)[1].geom
           outer == AltBoxSeq(svg)[2].geom
       IN  outer[2] < inner[2] /\ inner[2] + inner[4] < outer[2] + outer[4]

====
